---- MODULE Spec2Model ----
(***************************************************************************)
(* Authentication core of the backend: the Token Service (refresh-token    *)
(* issue, refresh, rotation, revocation, sweep) and the Verification       *)
(* Engine (OTP generation, resend cooldown, verification, attempt          *)
(* counting), with the requests that use them running in parallel.         *)
(* Every await of the source is a step boundary: a request is a process    *)
(* whose pc says which await it is suspended at.                           *)
(***************************************************************************)
EXTENDS Integers, Sequences, FiniteSets, Bags, TLC

\* ------------------------------------------------------------------ bounds
NumProcs == 2        \* requests in flight at once
MaxTokens == 3       \* RefreshToken rows the store may hold
MaxTokenTicks == 3   \* clock advances in the token specification
MaxGens == 2         \* OTPs generated per key in one behaviour
MaxCompares == 4     \* verifyOtp comparisons per key in one behaviour
MaxOtpTicks == 1     \* short clock advances in the verification specification
MaxKeys == 1         \* OTP keys (userId, verificationType) followed in one behaviour
MaxEvents == 4       \* AuthEvent rows the audit store may hold
MaxRegistered == 2   \* User rows register may create in one behaviour
MaxTtlTicks == 2     \* clock advances in the OTP lifetime specification
MaxUpkeepTicks == 2  \* clock advances in the session upkeep specifications

\* ------------------------------------------------------- program constants
DaySeconds == 86400                       \* value * 24 * 60 * 60
RefreshExpirationDays == 7                \* JWT_REFRESH_EXPIRATION '7d'
CooldownMs == 60000                       \* 1 minute cooldown
VerificationExpiration == 300             \* Default 5 minutes
VerificationMaxAttempts == 3              \* VERIFICATION_MAX_ATTEMPTS
SmsRetryAttempts == 3                     \* SMS_RETRY_ATTEMPTS || "3"
MailMaxRetries == 3                       \* maxRetries = 3

Procs == 1..NumProcs
Users == {"u1"}

VARIABLES
    now,            \* the clock (new Date(), Date.now()), in seconds
    rotation,       \* config JWT_REFRESH_ROTATION
    refreshTokens,  \* the RefreshToken table: a sequence of rows, id = index
    tcall,          \* per request: its position inside refreshAccessToken
    users,          \* the User table: a row per user id
    otpCache,       \* Redis: otp:<type>:<userId> -> { otp, attempts }, with expiry
    lastSentCache,  \* Redis: otp:<type>:<userId>:lastSent -> Date.now(), with expiry
    vcall,          \* per request: its position inside the Verification Engine
    notified,       \* per key: the Notifier sends made (mail or SMS)
    compared,       \* history, per key and generated OTP: comparisons made against it
    invalid,        \* history, per key and generated OTP: "Invalid verification code" returns
    sessions,       \* the UserSession table: a sequence of rows, id = index
    authEvents,     \* the AuthEvent table: a bag of the events written
    auditUp,        \* the AuthEvent store answers (FALSE: its calls throw)
    acall,          \* per request: its position inside AuthService
    userRoles,      \* the UserRole table: a sequence of rows, id = index
    guard,          \* the request now passing the guard chain
    cron,           \* per run of the cleanup job: its position and the counts returned
    ncall,          \* per send of the Notifier: its position inside sendWithRetry
    userCache,      \* Redis: user:<id> -> the cached User row
    ucall           \* per request: its position inside UserService
    \* (vcall[p].invalidSeen is history too: the value of invalid for the
    \* entry a verifyOtp request read, at the time it read it)

tokenVars == <<rotation, refreshTokens, tcall>>
verifVars == <<users, otpCache, lastSentCache, vcall, notified, compared,
               invalid>>
authVars == <<sessions, authEvents, auditUp, acall, userRoles, guard>>
sideVars == <<cron, ncall, userCache, ucall>>
vars == <<now, rotation, refreshTokens, tcall, users, otpCache, lastSentCache,
          vcall, notified, compared, invalid, sessions, authEvents, auditUp,
          acall, userRoles, guard, cron, ncall, userCache, ucall>>

\* ------------------------------------------------------------ Token Service

\* parseTimeToSeconds for the unit 'd'
getRefreshTokenExpirationSeconds == RefreshExpirationDays * DaySeconds

\* crypto.randomBytes(40).toString('hex'): a fresh value, unique per row
generateRefreshToken(n) == <<"rt", n>>

NoToken == <<"rt", 0>>      \* a token string no row holds
NoRes == [kind |-> "none", refreshToken |-> NoToken]
IdleCall == [pc |-> "idle", presented |-> NoToken, id |-> 0, newId |-> 0,
             res |-> NoRes]

TokenIds == 1..Len(refreshTokens)

\* prisma.refreshToken.findUnique({ where: { token } }): the row id, 0 for null
findRefreshTokenByToken(tk) ==
    IF \E i \in TokenIds : refreshTokens[i].token = tk
    THEN CHOOSE i \in TokenIds : refreshTokens[i].token = tk
    ELSE 0

\* the guard without its expiry test
RefreshRejectedNoExpiry(i) ==
    \/ i = 0
    \/ refreshTokens[i].isRevoked

\* the guard of refreshAccessToken: !token || token.isRevoked || new Date() > token.expiresAt
RefreshRejected(i) ==
    \/ i = 0
    \/ refreshTokens[i].isRevoked
    \/ now > refreshTokens[i].expiresAt

\* the row prisma.refreshToken.create inserts; parent is a history field: the
\* row whose rotation created this one (0 for a row created by generateTokens)
NewRow(u, parent) ==
    [id |-> Len(refreshTokens) + 1,
     token |-> generateRefreshToken(Len(refreshTokens) + 1),
     userId |-> u,
     expiresAt |-> now + getRefreshTokenExpirationSeconds,
     isRevoked |-> FALSE,
     replacedByToken |-> 0,
     parent |-> parent]

InFlight == Cardinality({p \in Procs : tcall[p].pc # "idle"})

\* the refreshToken field of the TokenResponse refreshAccessToken returns
RefreshResponseToken(i, newId) == refreshTokens[i].token

ReturnOk(p, i, newId) ==
    tcall' = [tcall EXCEPT ![p] =
                [pc |-> "idle", presented |-> tcall[p].presented, id |-> i,
                 newId |-> newId,
                 res |-> [kind |-> "ok",
                          refreshToken |-> RefreshResponseToken(i, newId)]]]

\* generateTokens -> createRefreshToken
GenerateTokens(u) ==
    /\ Len(refreshTokens) + InFlight < MaxTokens
    /\ refreshTokens' = Append(refreshTokens, NewRow(u, 0))
    /\ UNCHANGED <<now, rotation, tcall>>
    /\ UNCHANGED <<verifVars, authVars, sideVars>>

\* refreshAccessToken up to its first suspension inside rotateRefreshToken
RefreshAccessToken(p, tk) ==
    /\ tcall[p].pc = "idle"
    /\ Len(refreshTokens) + InFlight < MaxTokens
    /\ LET i == findRefreshTokenByToken(tk) IN
         IF RefreshRejected(i)
         THEN tcall' = [tcall EXCEPT ![p] =
                  [pc |-> "idle", presented |-> tk, id |-> i, newId |-> 0,
                   res |-> [kind |-> "null", refreshToken |-> NoToken]]]
         ELSE IF rotation
         THEN tcall' = [tcall EXCEPT ![p] =
                  [pc |-> "rotate_find", presented |-> tk, id |-> i,
                   newId |-> 0, res |-> NoRes]]
         ELSE /\ tcall' = [tcall EXCEPT ![p] =
                  [pc |-> "idle", presented |-> tk, id |-> i, newId |-> 0,
                   res |-> [kind |-> "ok",
                            refreshToken |-> RefreshResponseToken(i, 0)]]]
    /\ UNCHANGED <<now, rotation, refreshTokens>>
    /\ UNCHANGED <<verifVars, authVars, sideVars>>

\* rotateRefreshToken: findUnique({ where: { id } }) and the isRevoked guard
RotateFind(p) ==
    /\ tcall[p].pc = "rotate_find"
    /\ IF refreshTokens[tcall[p].id].isRevoked
       THEN ReturnOk(p, tcall[p].id, 0)
       ELSE tcall' = [tcall EXCEPT ![p].pc = "rotate_create"]
    /\ UNCHANGED <<now, rotation, refreshTokens>>
    /\ UNCHANGED <<verifVars, authVars, sideVars>>

\* rotateRefreshToken: prisma.refreshToken.create of the successor
RotateCreate(p) ==
    /\ tcall[p].pc = "rotate_create"
    /\ refreshTokens' = Append(refreshTokens,
                               NewRow(refreshTokens[tcall[p].id].userId,
                                      tcall[p].id))
    /\ tcall' = [tcall EXCEPT ![p].pc = "rotate_update",
                              ![p].newId = Len(refreshTokens) + 1]
    /\ UNCHANGED <<now, rotation>>
    /\ UNCHANGED <<verifVars, authVars, sideVars>>

\* a rotation update that records the successor and clears the revocation
ReplacedBy(row, newId) ==
    [row EXCEPT !.isRevoked = FALSE, !.replacedByToken = newId]

\* the row rotateRefreshToken's update leaves for the old token
RevokedBy(row, newId) ==
    [row EXCEPT !.isRevoked = TRUE, !.replacedByToken = newId]

\* rotateRefreshToken: prisma.refreshToken.update revoking the old token
RotateUpdate(p) ==
    /\ tcall[p].pc = "rotate_update"
    /\ refreshTokens' = [refreshTokens EXCEPT
           ![tcall[p].id] = RevokedBy(refreshTokens[tcall[p].id], tcall[p].newId)]
    /\ ReturnOk(p, tcall[p].id, tcall[p].newId)
    /\ UNCHANGED <<now, rotation>>
    /\ UNCHANGED <<verifVars, authVars, sideVars>>

\* a storage call of rotateRefreshToken throws: the catch logs and returns
\* null, and refreshAccessToken, which ignores that result, returns its response
RotateStorageError(p) ==
    /\ tcall[p].pc \in {"rotate_create", "rotate_update"}
    /\ ReturnOk(p, tcall[p].id, tcall[p].newId)
    /\ UNCHANGED <<now, rotation, refreshTokens>>
    /\ UNCHANGED <<verifVars, authVars, sideVars>>

\* revokeRefreshToken: update({ where: { token }, data: { isRevoked: true } })
RevokeRefreshToken(tk) ==
    /\ findRefreshTokenByToken(tk) # 0
    /\ refreshTokens' = [refreshTokens EXCEPT
           ![findRefreshTokenByToken(tk)].isRevoked = TRUE]
    /\ UNCHANGED <<now, rotation, tcall>>
    /\ UNCHANGED <<verifVars, authVars, sideVars>>

\* cleanupExpiredRefreshTokens: updateMany where isRevoked=false and expiresAt < now
cleanupExpiredRefreshTokens ==
    /\ refreshTokens' = [i \in TokenIds |->
           IF ~refreshTokens[i].isRevoked /\ refreshTokens[i].expiresAt < now
           THEN [refreshTokens[i] EXCEPT !.isRevoked = TRUE]
           ELSE refreshTokens[i]]
    /\ refreshTokens' # refreshTokens
    /\ UNCHANGED <<now, rotation, tcall>>
    /\ UNCHANGED <<verifVars, authVars, sideVars>>

\* the clock advances by half a refresh-token lifetime
TokenClock ==
    /\ now - 1 < MaxTokenTicks * (getRefreshTokenExpirationSeconds \div 2)
    /\ now' = now + (getRefreshTokenExpirationSeconds \div 2)
    /\ UNCHANGED tokenVars
    /\ UNCHANGED <<verifVars, authVars, sideVars>>

\* ------------------------------------------------------ Verification Engine

\* enum VerificationType
VerificationType == {"EMAIL", "PHONE", "PASSWORD_RESET"}

\* enum UserStatus
UserStatus == {"pending_verification", "active", "suspended", "inactive"}

\* the statuses of the User row the model starts from: one a verification
\* may promote, one it must leave alone
InitialStatus == {"pending_verification", "suspended"}

\* the codes generateOtp may draw and a client may submit
Codes == {"111111", "222222"}

\* getCacheKey: `otp:${verificationType.toLowerCase()}:${userId}`
getCacheKey(u, t) == <<"otp", t, u>>

CacheKeys == {getCacheKey(u, t) : u \in Users, t \in VerificationType}

\* what RedisService.get returns for a key that is absent or expired: null
NoEntry == [otp |-> "", attempts |-> 0, exp |-> 0, serial |-> 0]
NoStamp == [ts |-> 0, exp |-> 0]

IdleVCall == [pc |-> "idle", op |-> "none", user |-> "", type |-> "",
              otp |-> "", cached |-> NoEntry, caller |-> "", status |-> "",
              invalidSeen |-> 0, res |-> "none"]

\* the passwords a client may submit; the first is the one registered
Passwords == {"pw1", "pw2"}

\* UserService.hashPassword: bcrypt.hash(password, 10)
hashPassword(password) == <<"bcrypt", password>>

\* UserService.validatePassword: bcrypt.compare(plainPassword, hashedPassword)
validatePassword(plainPassword, hashedPassword) ==
    hashedPassword = hashPassword(plainPassword)

\* User.password of a user without a local password: null
NoPassword == << >>

\* User.username of a user who chose none: null
NoUsername == ""

\* a RegisterDto not yet received
NoDto == [email |-> "", phone |-> "", username |-> NoUsername, password |-> ""]

\* the response of a request of AuthService
NoAuthRes == [kind |-> "none", refreshToken |-> NoToken, sessionId |-> 0]

IdleACall == [pc |-> "idle", op |-> "none", ident |-> "", passwordOk |-> FALSE,
              device |-> "", user |-> "", token |-> NoToken,
              reason |-> "", flagged |-> FALSE, tokenId |-> 0,
              sessionId |-> 0, dto |-> NoDto, role |-> ""]

\* a request without an Authorization header
NoJwt == [sub |-> "", secret |-> "", exp |-> 0, iss |-> "", aud |-> ""]

\* request.user before any guard attached one
NoRequestUser == [id |-> "", sub |-> ""]

\* no request in the guard chain
IdleGuard == [pc |-> "idle", isPublic |-> FALSE, roles |-> {},
              permissions |-> {}, token |-> NoJwt, user |-> NoRequestUser,
              outcome |-> "none"]

\* a cleanup run not started: no count returned yet
IdleCron == [pc |-> "idle", sessionsCount |-> 0, tokensCount |-> 0]

\* a Notifier send not started; attempts is history: the provider calls the
\* last send made
IdleNCall == [pc |-> "idle", channel |-> "", retryCount |-> 0,
              attempts |-> 0, res |-> "none"]

\* what RedisService.get returns for a user key that is absent: null
NoCachedUser == [status |-> "none"]

\* a UserService request not started
IdleUCall == [pc |-> "idle", op |-> "none", user |-> "", row |-> NoCachedUser]

\* the cleanup job, the Notifier and the UserService cache at rest
SideQuiet ==
    /\ cron = [p \in Procs |-> IdleCron]
    /\ ncall = [p \in Procs |-> IdleNCall]
    /\ userCache = [u \in Users |-> NoCachedUser]
    /\ ucall = [p \in Procs |-> IdleUCall]

\* AuthService at rest: no session, no event, no request started
AuthQuiet ==
    /\ sessions = << >>
    /\ authEvents = EmptyBag
    /\ auditUp = TRUE
    /\ acall = [p \in Procs |-> IdleACall]
    /\ userRoles = << >>
    /\ guard = IdleGuard

\* nothing verified yet, no OTP stored, no request started
VerifInit ==
    /\ users \in [Users -> [status : InitialStatus, emailVerified : {FALSE},
                            phoneVerified : {FALSE},
                            password : {hashPassword("pw1")},
                            email : {"e1"}, phone : {"ph1"},
                            username : {NoUsername}]]
    /\ otpCache = [k \in CacheKeys |-> NoEntry]
    /\ lastSentCache = [k \in CacheKeys |-> NoStamp]
    /\ vcall = [p \in Procs |-> IdleVCall]
    /\ notified = [k \in CacheKeys |-> 0]
    /\ compared = [k \in CacheKeys |-> << >>]
    /\ invalid = [k \in CacheKeys |-> << >>]

\* the Verification Engine at rest, for the token specification
VerifQuiet ==
    /\ VerifInit
    /\ \A u \in Users : users[u].status = "pending_verification"

TokenInit ==
    /\ now = 1
    /\ rotation \in BOOLEAN
    /\ refreshTokens = << >>
    /\ tcall = [p \in Procs |-> IdleCall]
    /\ VerifQuiet
    /\ AuthQuiet
    /\ SideQuiet

PresentedTokens == {generateRefreshToken(n) : n \in 0..MaxTokens}

TokenNext ==
    \/ \E u \in Users : GenerateTokens(u)
    \/ \E p \in Procs, tk \in PresentedTokens : RefreshAccessToken(p, tk)
    \/ \E p \in Procs : RotateFind(p)
    \/ \E p \in Procs : RotateCreate(p)
    \/ \E p \in Procs : RotateUpdate(p)
    \/ \E p \in Procs : RotateStorageError(p)
    \/ \E tk \in PresentedTokens : RevokeRefreshToken(tk)
    \/ cleanupExpiredRefreshTokens
    \/ TokenClock

SpecToken == TokenInit /\ [][TokenNext]_vars

\* ---------------------------------------------- Verification Engine: requests

\* configService.get(PHONE_/EMAIL_VERIFICATION_EXPIRATION, 300)
ttlSeconds(t) == VerificationExpiration

\* Date.now(), in milliseconds
DateNow == now * 1000

\* the cooldown test with its comparison inverted
InCooldownInverted(stamp) ==
    /\ stamp.ts # 0
    /\ DateNow - stamp.ts > CooldownMs

\* the cooldown test without the age of the last send
InCooldownNoAge(stamp) == stamp.ts # 0

\* lastSent && Date.now() - lastSent < 60000
InCooldown(stamp) ==
    /\ stamp.ts # 0
    /\ DateNow - stamp.ts < CooldownMs

\* what RedisService.get hands back of a stored entry: the value, not its TTL
Value(entry) == [entry EXCEPT !.exp = 0]

\* cachedData.attempts >= maxAttempts
AttemptsExhausted(entry) == entry.attempts >= VerificationMaxAttempts

\* the value verifyOtp writes back: { ...cachedData, attempts: cachedData.attempts + 1 }
WithAttempt(entry, t) ==
    [entry EXCEPT !.attempts = entry.attempts + 1, !.exp = now + ttlSeconds(t)]

\* the value generateAndSendOtp stores: { otp, attempts: 0 } with the TTL
FreshEntry(code, t, serial) ==
    [otp |-> code, attempts |-> 0, exp |-> now + ttlSeconds(t),
     serial |-> serial]

\* UserService.verifyEmail: data { emailVerified: true, status: ACTIVE }
verifyEmail(row) == [row EXCEPT !.emailVerified = TRUE, !.status = "active"]

\* UserService.verifyPhone: data { phoneVerified: true }
verifyPhone(row) == [row EXCEPT !.phoneVerified = TRUE]

\* the switch with the PASSWORD_RESET case falling into the EMAIL case
updateVerificationStatusAnyType(row, t) ==
    IF t = "PHONE" THEN [row EXCEPT !.phoneVerified = TRUE]
    ELSE [row EXCEPT !.emailVerified = TRUE, !.status = "active"]

\* updateVerificationStatus: the switch on the verification type
updateVerificationStatus(row, t) ==
    CASE t = "EMAIL" -> verifyEmail(row)
      [] t = "PHONE" -> verifyPhone(row)
      [] OTHER -> row

VKey(p) == getCacheKey(vcall[p].user, vcall[p].type)

\* the request returns r; only the response is kept of it
VReturn(p, r) == vcall' = [vcall EXCEPT ![p] = [IdleVCall EXCEPT !.res = r]]

\* the keys the requests made so far have used
KeysInUse ==
    {k \in CacheKeys : compared[k] # << >>}
        \cup {getCacheKey(vcall[p].user, vcall[p].type) :
                 p \in {q \in Procs : vcall[q].pc # "idle"}}

\* the requests of one kind now in flight
Running(op) == Cardinality({p \in Procs : vcall[p].pc # "idle" /\ vcall[p].op = op})

RECURSIVE SumSeq(_)
SumSeq(q) == IF q = << >> THEN 0 ELSE Head(q) + SumSeq(Tail(q))

\* the comparisons made so far on key k, against any of its OTPs
Compares(k) == SumSeq(compared[k])

\* a request may start on key k: the model follows MaxKeys keys at a time
MayUse(k) == Cardinality(KeysInUse \cup {k}) <= MaxKeys

\* generateAndSendOtp: findById, then redisService.get(cacheKey)
generateAndSendOtp(p, u, t) ==
    /\ vcall[p].pc = "idle"
    /\ MayUse(getCacheKey(u, t))
    /\ Len(compared[getCacheKey(u, t)]) + Running("generateAndSendOtp") < MaxGens
    /\ vcall' = [vcall EXCEPT ![p] =
          [IdleVCall EXCEPT
              !.pc = IF otpCache[getCacheKey(u, t)] # NoEntry
                     THEN "gen_lastSent" ELSE "gen_set",
              !.op = "generateAndSendOtp", !.user = u, !.type = t,
              !.caller = "controller"]]
    /\ UNCHANGED <<now, tokenVars, authVars, sideVars,
                   users, otpCache, lastSentCache, notified,
                   compared, invalid>>

\* generateAndSendOtp: redisService.get(lastSentKey) and the cooldown test
GenCooldownCheck(p) ==
    /\ vcall[p].pc = "gen_lastSent"
    /\ IF InCooldown(lastSentCache[VKey(p)])
       THEN VReturn(p, "cooldown")
       ELSE vcall' = [vcall EXCEPT ![p].pc = "gen_set"]
    /\ UNCHANGED <<now, tokenVars, authVars, sideVars,
                   users, otpCache, lastSentCache, notified,
                   compared, invalid>>

\* generateAndSendOtp: generateOtp and redisService.set(cacheKey, { otp, attempts: 0 }, ttl)
GenStoreOtp(p, code) ==
    /\ vcall[p].pc = "gen_set"
    /\ otpCache' = [otpCache EXCEPT ![VKey(p)] =
          FreshEntry(code, vcall[p].type, Len(compared[VKey(p)]) + 1)]
    /\ compared' = [compared EXCEPT ![VKey(p)] = Append(@, 0)]
    /\ invalid' = [invalid EXCEPT ![VKey(p)] = Append(@, 0)]
    /\ vcall' = [vcall EXCEPT ![p].pc = "gen_setLastSent", ![p].otp = code]
    /\ UNCHANGED <<now, tokenVars, authVars, sideVars,
                   users, lastSentCache, notified>>

\* generateAndSendOtp: redisService.set(`${cacheKey}:lastSent`, Date.now(), ttl)
GenStoreLastSent(p) ==
    /\ vcall[p].pc = "gen_setLastSent"
    /\ lastSentCache' = [lastSentCache EXCEPT ![VKey(p)] =
          [ts |-> DateNow, exp |-> now + ttlSeconds(vcall[p].type)]]
    /\ vcall' = [vcall EXCEPT ![p].pc = "gen_send"]
    /\ UNCHANGED <<now, tokenVars, authVars, sideVars,
                   users, otpCache, notified, compared,
                   invalid>>

\* generateAndSendOtp: sendOtp (the Notifier's boolean is not read), the
\* tracking event, and the "Verification code sent" response
GenSend(p) ==
    /\ vcall[p].pc = "gen_send"
    /\ notified' = [notified EXCEPT ![VKey(p)] = @ + 1]
    /\ VReturn(p, "sent")
    /\ UNCHANGED <<now, tokenVars, authVars, sideVars,
                   users, otpCache, lastSentCache, compared,
                   invalid>>

\* verifyOtp: findById, then redisService.get(cacheKey); called by the
\* controller, by AuthService.verifyPhoneAfterRegistration (which read the
\* user, and so the status, before) or by resetPassword
verifyOtp(p, u, t, code, caller) ==
    /\ vcall[p].pc = "idle"
    /\ MayUse(getCacheKey(u, t))
    /\ Compares(getCacheKey(u, t)) + Running("verifyOtp") < MaxCompares
    /\ caller = "verifyPhoneAfterRegistration" => t = "PHONE"
    /\ caller = "resetPassword" => t = "PASSWORD_RESET"
    /\ IF otpCache[getCacheKey(u, t)] = NoEntry
       THEN VReturn(p, "not_found")
       ELSE vcall' = [vcall EXCEPT ![p] =
               [IdleVCall EXCEPT
                   !.pc = "ver_attempt", !.op = "verifyOtp", !.user = u,
                   !.type = t, !.otp = code,
                   !.cached = Value(otpCache[getCacheKey(u, t)]),
                   !.caller = caller,
                   !.status = IF caller = "verifyPhoneAfterRegistration"
                              THEN users[u].status ELSE "",
                   !.invalidSeen = invalid[getCacheKey(u, t)]
                                       [otpCache[getCacheKey(u, t)].serial]]]
    /\ UNCHANGED <<now, tokenVars, authVars, sideVars,
                   users, otpCache, lastSentCache, notified,
                   compared, invalid>>

\* verifyOtp: the max-attempts test on the value read, then either the del
\* and "Too many failed attempts", or the write-back of attempts + 1
\* followed by the comparison cachedData.otp !== otp
VerifyAttempt(p) ==
    /\ vcall[p].pc = "ver_attempt"
    /\ LET e == vcall[p].cached
           k == VKey(p)
       IN IF AttemptsExhausted(e)
          THEN /\ otpCache' = [otpCache EXCEPT ![k] = NoEntry]
               /\ VReturn(p, "too_many")
               /\ UNCHANGED <<compared, invalid>>
          ELSE /\ otpCache' = [otpCache EXCEPT ![k] =
                                  WithAttempt(e, vcall[p].type)]
               /\ compared' = [compared EXCEPT ![k][e.serial] = @ + 1]
               /\ IF e.otp # vcall[p].otp
                  THEN /\ VReturn(p, "invalid")
                       /\ invalid' = [invalid EXCEPT ![k][e.serial] = @ + 1]
                  ELSE /\ vcall' = [vcall EXCEPT ![p].pc = "ver_update"]
                       /\ UNCHANGED invalid
    /\ UNCHANGED <<now, tokenVars, authVars, sideVars,
                   users, lastSentCache, notified>>

\* verifyOtp: updateVerificationStatus(user, verificationType)
VerifyUpdateStatus(p) ==
    /\ vcall[p].pc = "ver_update"
    /\ users' = [users EXCEPT ![vcall[p].user] =
                    updateVerificationStatus(@, vcall[p].type)]
    /\ vcall' = [vcall EXCEPT ![p].pc = "ver_del"]
    /\ UNCHANGED <<now, tokenVars, authVars, sideVars,
                   otpCache, lastSentCache, notified,
                   compared, invalid>>

\* verifyOtp: redisService.del(cacheKey), the tracking event and the
\* "Verification successful" response
VerifyDelete(p) ==
    /\ vcall[p].pc = "ver_del"
    /\ otpCache' = [otpCache EXCEPT ![VKey(p)] = NoEntry]
    /\ IF vcall[p].caller = "controller"
       THEN VReturn(p, "success")
       ELSE vcall' = [vcall EXCEPT
                        ![p].pc = IF vcall[p].caller = "resetPassword"
                                  THEN "reset_update" ELSE "ver_promote",
                        ![p].res = "success"]
    /\ UNCHANGED <<now, tokenVars, authVars, sideVars,
                   users, lastSentCache, notified, compared,
                   invalid>>

\* verifyPhoneAfterRegistration after a successful verifyOtp:
\* if (user.status === PENDING_VERIFICATION) setStatus(user.id, ACTIVE)
VerifyPhonePromote(p) ==
    /\ vcall[p].pc = "ver_promote"
    /\ users' = [users EXCEPT ![vcall[p].user].status =
                    IF vcall[p].status = "pending_verification"
                    THEN "active" ELSE @]
    /\ VReturn(p, "success")
    /\ UNCHANGED <<now, tokenVars, authVars, sideVars,
                   otpCache, lastSentCache, notified,
                   compared, invalid>>

\* resetPassword after a successful verifyOtp: userService.update(user.id,
\* { password: newPassword, ... }), which hashes the password, the tracking
\* event and the "Password has been reset successfully" response
ResetPasswordUpdate(p, newPassword) ==
    /\ vcall[p].pc = "reset_update"
    /\ users' = [users EXCEPT ![vcall[p].user].password =
                    hashPassword(newPassword)]
    /\ VReturn(p, "reset_ok")
    /\ UNCHANGED <<now, tokenVars, authVars, sideVars, otpCache, lastSentCache,
                   notified, compared, invalid>>

\* Redis drops the keys whose expiry time has come
Expire(cache, none, t) ==
    [k \in CacheKeys |-> IF cache[k] # none /\ cache[k].exp <= t
                         THEN none ELSE cache[k]]

\* a cooldown, in seconds
OtpStep == CooldownMs \div 1000

\* the clock advances by a cooldown or by a whole OTP lifetime
VerifClock(d) ==
    /\ now - 1 < MaxOtpTicks * OtpStep
    /\ now' = now + d
    /\ otpCache' = Expire(otpCache, NoEntry, now + d)
    /\ lastSentCache' = Expire(lastSentCache, NoStamp, now + d)
    /\ UNCHANGED <<tokenVars, authVars, sideVars, users, vcall, notified, compared,
                   invalid>>

Callers == {"controller", "verifyPhoneAfterRegistration"}

VerifNext ==
    \/ \E p \in Procs, u \in Users, t \in VerificationType :
          generateAndSendOtp(p, u, t)
    \/ \E p \in Procs : GenCooldownCheck(p)
    \/ \E p \in Procs, code \in Codes : GenStoreOtp(p, code)
    \/ \E p \in Procs : GenStoreLastSent(p)
    \/ \E p \in Procs : GenSend(p)
    \/ \E p \in Procs, u \in Users, t \in VerificationType, code \in Codes,
          caller \in Callers : verifyOtp(p, u, t, code, caller)
    \/ \E p \in Procs : VerifyAttempt(p)
    \/ \E p \in Procs : VerifyUpdateStatus(p)
    \/ \E p \in Procs : VerifyDelete(p)
    \/ \E p \in Procs : VerifyPhonePromote(p)
    \/ \E d \in {OtpStep, VerificationExpiration} : VerifClock(d)

\* the token tables at rest, for the verification specification
TokenQuiet ==
    /\ rotation = TRUE
    /\ refreshTokens = << >>
    /\ tcall = [p \in Procs |-> IdleCall]

VerifSpecInit ==
    /\ now = 1
    /\ TokenQuiet
    /\ AuthQuiet
    /\ SideQuiet
    /\ VerifInit

SpecOtp == VerifSpecInit /\ [][VerifNext]_vars

\* requestPasswordReset, resetPassword and the verify-otp route on the
\* PASSWORD_RESET key
ResetNext ==
    \/ \E p \in Procs, u \in Users :
          generateAndSendOtp(p, u, "PASSWORD_RESET")
    \/ \E p \in Procs : GenCooldownCheck(p)
    \/ \E p \in Procs, code \in Codes : GenStoreOtp(p, code)
    \/ \E p \in Procs : GenStoreLastSent(p)
    \/ \E p \in Procs : GenSend(p)
    \/ \E p \in Procs, u \in Users, code \in Codes,
          caller \in {"controller", "resetPassword"} :
          verifyOtp(p, u, "PASSWORD_RESET", code, caller)
    \/ \E p \in Procs : VerifyAttempt(p)
    \/ \E p \in Procs : VerifyUpdateStatus(p)
    \/ \E p \in Procs : VerifyDelete(p)
    \/ \E p \in Procs, newPassword \in Passwords :
          ResetPasswordUpdate(p, newPassword)
    \/ \E d \in {OtpStep, VerificationExpiration} : VerifClock(d)

SpecReset == VerifSpecInit /\ [][ResetNext]_vars

\* ------------------------------------- Verification Engine: an OTP's lifetime

\* generateAndSendOtp called at the initial time: in this specification
\* every OTP is generated at time 1
TtlGenerate(p, u) ==
    /\ now = 1
    /\ generateAndSendOtp(p, u, "EMAIL")

\* most of an OTP's lifetime, in seconds
TtlStep == VerificationExpiration - OtpStep

\* the clock advances between requests, by most of an OTP's lifetime
TtlClock ==
    /\ \A p \in Procs : vcall[p].pc = "idle"
    /\ now + TtlStep <= 1 + MaxTtlTicks * TtlStep
    /\ now' = now + TtlStep
    /\ otpCache' = Expire(otpCache, NoEntry, now + TtlStep)
    /\ lastSentCache' = Expire(lastSentCache, NoStamp, now + TtlStep)
    /\ UNCHANGED <<tokenVars, authVars, sideVars, users, vcall, notified, compared,
                   invalid>>

\* OTPs generated at time 1 and verified while the clock advances
TtlNext ==
    \/ \E p \in Procs, u \in Users : TtlGenerate(p, u)
    \/ \E p \in Procs : GenCooldownCheck(p)
    \/ \E p \in Procs, code \in Codes : GenStoreOtp(p, code)
    \/ \E p \in Procs : GenStoreLastSent(p)
    \/ \E p \in Procs : GenSend(p)
    \/ \E p \in Procs, u \in Users, code \in Codes :
          verifyOtp(p, u, "EMAIL", code, "controller")
    \/ \E p \in Procs : VerifyAttempt(p)
    \/ \E p \in Procs : VerifyUpdateStatus(p)
    \/ \E p \in Procs : VerifyDelete(p)
    \/ TtlClock

SpecTtl == VerifSpecInit /\ [][TtlNext]_vars

\* -------------------------------------------------------------- AuthService

\* findByEmail / findByPhone returning null
NoUser == ""

\* what a login request may carry: "" is a field left out; "e0" is an email
\* nobody registered; a device is a (deviceId, ipAddress) pair
LoginEmails == {"", "e1", "e0"}
LoginPhones == {"", "ph1"}
Devices == {"", "d1", "d2"}

\* UserService.findByEmail: prisma.user.findUnique({ where: { email } })
findByEmail(email) ==
    IF \E u \in DOMAIN users : users[u].email = email
    THEN CHOOSE u \in DOMAIN users : users[u].email = email
    ELSE NoUser

\* UserService.findByPhone: prisma.user.findFirst({ where: { phone } })
findByPhone(phone) ==
    IF \E u \in DOMAIN users : users[u].phone = phone
    THEN CHOOSE u \in DOMAIN users : users[u].phone = phone
    ELSE NoUser

\* login: if (email) findByEmail(email) else if (phone) findByPhone(phone)
LookupUser(email, phone) ==
    IF email # "" THEN findByEmail(email)
    ELSE IF phone # "" THEN findByPhone(phone)
    ELSE NoUser

\* SessionService.generateSessionToken: sha256 of a fresh uuid, unique per row
generateSessionToken(n) == <<"st", n>>

\* configService.get('SESSION_DURATION_SECONDS', 86400 * 7)
SessionDurationSeconds == DaySeconds * 7

SessionIds == 1..Len(sessions)

\* SessionService.findSessionByToken: findUnique({ where: { token } }), 0 for null
findSessionByToken(tk) ==
    IF \E i \in SessionIds : sessions[i].token = tk
    THEN CHOOSE i \in SessionIds : sessions[i].token = tk
    ELSE 0

\* the row SessionService.createSession inserts; issuedWith is history, the
\* RefreshToken row the same login created, which the row itself does not hold
NewSession(u, device, tokenId) ==
    [id |-> Len(sessions) + 1,
     token |-> generateSessionToken(Len(sessions) + 1),
     userId |-> u,
     device |-> device,
     isActive |-> TRUE,
     expiresAt |-> now + SessionDurationSeconds,
     lastActiveAt |-> now,
     issuedWith |-> tokenId]

\* AuthAnalyticsService.trackEvent: prisma.authEvent.create inside try/catch;
\* the table after the call
trackEvent(eventType, userId, device, metadata) ==
    IF auditUp
    THEN authEvents (+) SetToBag({[eventType |-> eventType, userId |-> userId,
                                   device |-> device, metadata |-> metadata]})
    ELSE authEvents

\* checkSuspiciousActivity: the LOGIN_SUCCESS events of the user
recentLogins(u) ==
    {e \in BagToSet(authEvents) : /\ e.eventType = "LOGIN_SUCCESS"
                                  /\ e.userId = u}

\* checkSuspiciousActivity: !hasUsedDeviceBefore && recentLogins.length > 0
isSuspicious(u, device) ==
    /\ recentLogins(u) # {}
    /\ ~\E e \in recentLogins(u) : e.device = device

\* the request returns: its locals are gone
AReturn(p) == acall' = [acall EXCEPT ![p] = IdleACall]

AKind(kind) == [NoAuthRes EXCEPT !.kind = kind]

\* the requests of AuthService now in flight
ARunning == Cardinality({p \in Procs : acall[p].pc # "idle"})

\* a request that may write n events may start
EventRoom(n) == BagCardinality(authEvents) + 2 * ARunning + n <= MaxEvents

\* what the requests of AuthService leave alone
authFrame == <<now, rotation, tcall, verifVars, userRoles, guard, sideVars>>

\* an optional argument left out
Undefined == << >>

\* the id of a RefreshToken row as the string Prisma compares ids with
TokenRowId(i) == <<"id", i>>

\* the rejection login decides on after the user lookup, in the order of the
\* code: user missing, status, password hash missing, password mismatch
LoginFailureReason(u, password) ==
    IF u = NoUser THEN "User not found"
    ELSE IF users[u].status \notin {"active", "pending_verification"}
         THEN "Account status"
    ELSE IF users[u].password = NoPassword THEN "No password set for user"
    ELSE IF ~validatePassword(password, users[u].password)
         THEN "Invalid password"
    ELSE ""

\* which of email and phone the LoginDto carries
Supplied(email, phone) ==
    IF email # "" /\ phone # "" THEN "both"
    ELSE IF email # "" THEN "email"
    ELSE IF phone # "" THEN "phone"
    ELSE "neither"

\* history: the request carries the password of the account it names
PasswordMatches(u, password) ==
    /\ u # NoUser
    /\ validatePassword(password, users[u].password)

\* the exception login throws for a failure reason
LoginRejection(reason) ==
    IF reason = "Account status" THEN "not_active" ELSE "invalid_credentials"

\* a flagged login that does not go on to generateTokens
AfterCheckBlocking(flagged) ==
    IF flagged THEN "login_blocked" ELSE "login_tokens"

\* login after checkSuspiciousActivity: if (isSuspicious) logger.warn(...);
\* either way it goes on to generateTokens
AfterCheck(flagged) == "login_tokens"

\* logins that passed the checks and have not yet created their token
LoginsPending ==
    Cardinality({p \in Procs : acall[p].pc \in {"login_check", "login_tokens"}})

\* login: the test on email and phone (a request with neither is turned
\* away with BadRequestException), the user lookup, the status test and the
\* password validation
Login(p, email, phone, password, device) ==
    /\ acall[p].pc = "idle"
    /\ EventRoom(2)
    /\ Len(refreshTokens) + LoginsPending < MaxTokens
    /\ IF email = "" /\ phone = ""
       THEN AReturn(p)
       ELSE LET u == LookupUser(email, phone)
                reason == LoginFailureReason(u, password)
            IN acall' = [acall EXCEPT ![p] =
                  [IdleACall EXCEPT
                     !.pc = IF reason # "" THEN "login_fail"
                            ELSE IF device # "" THEN "login_check"
                            ELSE "login_tokens",
                     !.op = "login", !.ident = Supplied(email, phone),
                     !.passwordOk = PasswordMatches(u, password),
                     !.device = device, !.user = u,
                     !.reason = reason]]
    /\ UNCHANGED <<refreshTokens, sessions, authEvents, auditUp, authFrame>>

\* a rejection that throws without calling trackLoginFailure
LoginTrackFailureSilent(p) ==
    /\ acall[p].pc = "login_fail"
    /\ AReturn(p)
    /\ UNCHANGED <<refreshTokens, sessions, authEvents, auditUp, authFrame>>

\* login: trackLoginFailure and the UnauthorizedException
LoginTrackFailure(p) ==
    /\ acall[p].pc = "login_fail"
    /\ authEvents' = trackEvent("LOGIN_FAILURE", acall[p].user,
                                acall[p].device, "")
    /\ AReturn(p)
    /\ UNCHANGED <<refreshTokens, sessions, auditUp, authFrame>>

\* login: checkSuspiciousActivity, whose findMany is outside any try/catch:
\* when the AuthEvent store throws, login throws
LoginCheckSuspicious(p) ==
    /\ acall[p].pc = "login_check"
    /\ IF ~auditUp
       THEN /\ AReturn(p)
            /\ UNCHANGED authEvents
       ELSE LET flagged == isSuspicious(acall[p].user, acall[p].device)
            IN /\ authEvents' =
                     IF flagged
                     THEN trackEvent("SUSPICIOUS_ACTIVITY", acall[p].user,
                                     acall[p].device, "")
                     ELSE authEvents
               /\ acall' = [acall EXCEPT ![p].pc = AfterCheck(flagged),
                                         ![p].flagged = flagged]
    /\ UNCHANGED <<refreshTokens, sessions, auditUp, authFrame>>

\* login: tokenService.generateTokens -> createRefreshToken
LoginGenerateTokens(p) ==
    /\ acall[p].pc = "login_tokens"
    /\ refreshTokens' = Append(refreshTokens, NewRow(acall[p].user, 0))
    /\ acall' = [acall EXCEPT ![p].pc = "login_session",
                              ![p].tokenId = Len(refreshTokens) + 1]
    /\ UNCHANGED <<sessions, authEvents, auditUp, authFrame>>

\* login: sessionService.createSession
LoginCreateSession(p) ==
    /\ acall[p].pc = "login_session"
    /\ sessions' = Append(sessions, NewSession(acall[p].user, acall[p].device,
                                               acall[p].tokenId))
    /\ acall' = [acall EXCEPT ![p].pc = "login_success",
                              ![p].sessionId = Len(sessions) + 1]
    /\ UNCHANGED <<refreshTokens, authEvents, auditUp, authFrame>>

\* login: updateLastLogin, trackLoginSuccess and the LoginResponseDto
LoginTrackSuccess(p) ==
    /\ acall[p].pc = "login_success"
    /\ authEvents' = trackEvent("LOGIN_SUCCESS", acall[p].user,
                                acall[p].device, "")
    /\ AReturn(p)
    /\ UNCHANGED <<refreshTokens, sessions, auditUp, authFrame>>

\* the strings a client may present as a token: refresh tokens, one no row
\* holds, and the token of the first session
AuthTokens == PresentedTokens \cup {generateSessionToken(1)}

\* TokenService.revokeRefreshToken: update({ where: { token } }); the update
\* of a missing row throws, is caught, and the table is as before
revokeRefreshToken(rows, tk) ==
    [i \in DOMAIN rows |->
        IF rows[i].token = tk THEN [rows[i] EXCEPT !.isRevoked = TRUE]
        ELSE rows[i]]

\* TokenService.revokeAllUserRefreshTokens: updateMany where userId,
\* isRevoked: false and, when exceptTokenId is given, id: { not: exceptTokenId }
revokeAllUserRefreshTokens(rows, u, exceptTokenId) ==
    [i \in DOMAIN rows |->
        IF /\ rows[i].userId = u
           /\ ~rows[i].isRevoked
           /\ (exceptTokenId = Undefined \/ TokenRowId(rows[i].id) # exceptTokenId)
        THEN [rows[i] EXCEPT !.isRevoked = TRUE]
        ELSE rows[i]]

\* SessionService.deactivateSession: update({ where: { id }, data: { isActive: false } })
deactivateSession(rows, id) ==
    [i \in DOMAIN rows |->
        IF rows[i].id = id THEN [rows[i] EXCEPT !.isActive = FALSE]
        ELSE rows[i]]

\* SessionService.deactivateAllUserSessions: updateMany where userId,
\* isActive: true and, when exceptSessionId is given, id: { not: exceptSessionId }
deactivateAllUserSessions(rows, u, exceptSessionId) ==
    [i \in DOMAIN rows |->
        IF /\ rows[i].userId = u
           /\ rows[i].isActive
           /\ (exceptSessionId = 0 \/ rows[i].id # exceptSessionId)
        THEN [rows[i] EXCEPT !.isActive = FALSE]
        ELSE rows[i]]

\* logout: findSessionByToken(token) and findRefreshTokenByToken(token)
Logout(p, tk) ==
    /\ acall[p].pc = "idle"
    /\ EventRoom(1)
    /\ acall' = [acall EXCEPT ![p] =
          [IdleACall EXCEPT !.pc = "logout_revoke", !.op = "logout",
                            !.token = tk,
                            !.sessionId = findSessionByToken(tk),
                            !.tokenId = findRefreshTokenByToken(tk)]]
    /\ UNCHANGED <<refreshTokens, sessions, authEvents, auditUp, authFrame>>

\* logout: revokeRefreshToken(token); without a session it returns true here
LogoutRevoke(p) ==
    /\ acall[p].pc = "logout_revoke"
    /\ refreshTokens' = revokeRefreshToken(refreshTokens, acall[p].token)
    /\ IF acall[p].sessionId = 0
       THEN AReturn(p)
       ELSE acall' = [acall EXCEPT ![p].pc = "logout_deactivate"]
    /\ UNCHANGED <<sessions, authEvents, auditUp, authFrame>>

\* logout, a session found: deactivateSession(session.id), then trackLogout
\* if the refresh token was found too, and true
LogoutDeactivate(p) ==
    /\ acall[p].pc = "logout_deactivate"
    /\ sessions' = deactivateSession(sessions, acall[p].sessionId)
    /\ authEvents' =
          IF acall[p].tokenId # 0
          THEN trackEvent("LOGOUT", refreshTokens[acall[p].tokenId].userId,
                          "", "")
          ELSE authEvents
    /\ AReturn(p)
    /\ UNCHANGED <<refreshTokens, auditUp, authFrame>>

\* logoutAll: if (currentToken) findSessionByToken(currentToken)
LogoutAll(p, u, currentToken) ==
    /\ acall[p].pc = "idle"
    /\ EventRoom(1)
    /\ acall' = [acall EXCEPT ![p] =
          [IdleACall EXCEPT !.pc = "logoutAll_revoke", !.op = "logoutAll",
                            !.user = u, !.token = currentToken,
                            !.sessionId =
                               IF currentToken = Undefined THEN 0
                               ELSE findSessionByToken(currentToken)]]
    /\ UNCHANGED <<refreshTokens, sessions, authEvents, auditUp, authFrame>>

\* logoutAll: revokeAllUserRefreshTokens(userId, currentToken)
LogoutAllRevoke(p) ==
    /\ acall[p].pc = "logoutAll_revoke"
    /\ refreshTokens' = revokeAllUserRefreshTokens(refreshTokens, acall[p].user,
                                                   acall[p].token)
    /\ acall' = [acall EXCEPT ![p].pc = "logoutAll_deactivate"]
    /\ UNCHANGED <<sessions, authEvents, auditUp, authFrame>>

\* logoutAll: deactivateAllUserSessions(userId, currentSessionId), the
\* LOGOUT event tagged allSessions, and true
LogoutAllDeactivate(p) ==
    /\ acall[p].pc = "logoutAll_deactivate"
    /\ sessions' = deactivateAllUserSessions(sessions, acall[p].user,
                                             acall[p].sessionId)
    /\ authEvents' = trackEvent("LOGOUT", acall[p].user, "", "allSessions")
    /\ AReturn(p)
    /\ UNCHANGED <<refreshTokens, auditUp, authFrame>>

\* what the request of p hands to its caller when its next step is its
\* last: the exception login throws, its LoginResponseDto, or the boolean
\* of logout and logoutAll
Response(p) ==
    CASE acall[p].pc = "login_fail" ->
            AKind(LoginRejection(acall[p].reason))
      [] acall[p].pc = "login_check" -> AKind("error")
      [] acall[p].pc = "login_success" ->
            [kind |-> "ok",
             refreshToken |-> refreshTokens[acall[p].tokenId].token,
             sessionId |-> acall[p].sessionId]
      [] acall[p].pc \in {"logout_revoke", "logout_deactivate",
                          "logoutAll_deactivate"} -> AKind("true")
      [] acall[p].pc = "refresh_call" /\ tcall[p].res.kind = "null" ->
            AKind("null")
      [] acall[p].pc = "refresh_event" ->
            [kind |-> "ok", refreshToken |-> tcall[p].res.refreshToken,
             sessionId |-> acall[p].sessionId]
      [] acall[p].pc \in {"reg_phone", "reg_username"} -> AKind("bad_request")
      [] acall[p].pc = "reg_create" -> AKind("error")
      [] acall[p].pc = "reg_otp" -> AKind("user")
      [] OTHER -> NoAuthRes

\* the AuthEvent store goes down or comes back
AuditStoreFlips ==
    /\ auditUp' = ~auditUp
    /\ UNCHANGED <<refreshTokens, sessions, authEvents, acall, authFrame>>

\* the accounts login may meet: any status with a local password, and an
\* active account without one
AuthInit ==
    /\ now = 1
    /\ TokenQuiet
    /\ users \in [Users -> [status : UserStatus, emailVerified : {FALSE},
                            phoneVerified : {FALSE},
                            password : {hashPassword("pw1"), NoPassword},
                            email : {"e1"}, phone : {"ph1"},
                            username : {NoUsername}]]
    /\ \A u \in Users : users[u].password = NoPassword
                            => users[u].status = "active"
    /\ otpCache = [k \in CacheKeys |-> NoEntry]
    /\ lastSentCache = [k \in CacheKeys |-> NoStamp]
    /\ vcall = [p \in Procs |-> IdleVCall]
    /\ notified = [k \in CacheKeys |-> 0]
    /\ compared = [k \in CacheKeys |-> << >>]
    /\ invalid = [k \in CacheKeys |-> << >>]
    /\ AuthQuiet
    /\ SideQuiet

LoginNext ==
    \/ \E p \in Procs, email \in LoginEmails, phone \in LoginPhones,
          password \in Passwords, device \in Devices :
          Login(p, email, phone, password, device)
    \/ \E p \in Procs : LoginTrackFailure(p)
    \/ \E p \in Procs : LoginCheckSuspicious(p)
    \/ \E p \in Procs : LoginGenerateTokens(p)
    \/ \E p \in Procs : LoginCreateSession(p)
    \/ \E p \in Procs : LoginTrackSuccess(p)
    \/ AuditStoreFlips

SpecLogin == AuthInit /\ [][LoginNext]_vars

\* an active account with a local password
LogoutInit ==
    /\ AuthInit
    /\ \A u \in Users : /\ users[u].status = "active"
                         /\ users[u].password = hashPassword("pw1")

\* logins with the right credentials, then logout and logoutAll
LogoutNext ==
    \/ \E p \in Procs : Login(p, "e1", "", "pw1", "")
    \/ \E p \in Procs : LoginGenerateTokens(p)
    \/ \E p \in Procs : LoginCreateSession(p)
    \/ \E p \in Procs : LoginTrackSuccess(p)
    \/ \E p \in Procs, tk \in AuthTokens : Logout(p, tk)
    \/ \E p \in Procs : LogoutRevoke(p)
    \/ \E p \in Procs : LogoutDeactivate(p)
    \/ \E p \in Procs, u \in Users, tk \in AuthTokens \cup {Undefined} :
          LogoutAll(p, u, tk)
    \/ \E p \in Procs : LogoutAllRevoke(p)
    \/ \E p \in Procs : LogoutAllDeactivate(p)

SpecLogout == LogoutInit /\ [][LogoutNext]_vars

\* a termination that also revokes the refresh tokens issued with the session
terminateSessionCascading(id) ==
    /\ id \in SessionIds
    /\ sessions' = deactivateSession(sessions, id)
    /\ refreshTokens' = [i \in TokenIds |->
           IF i = sessions[id].issuedWith
           THEN [refreshTokens[i] EXCEPT !.isRevoked = TRUE]
           ELSE refreshTokens[i]]
    /\ UNCHANGED <<authEvents, auditUp, acall, authFrame>>

\* SessionController.terminateSession: the session exists and is the
\* caller's, then sessionService.deactivateSession(id)
terminateSession(id) ==
    /\ id \in SessionIds
    /\ sessions' = deactivateSession(sessions, id)
    /\ UNCHANGED <<refreshTokens, authEvents, auditUp, acall, authFrame>>

\* SessionController.terminateAllSessions:
\* sessionService.deactivateAllUserSessions(userId, currentSession)
terminateAllSessions(u, currentSession) ==
    /\ sessions' = deactivateAllUserSessions(sessions, u, currentSession)
    /\ sessions' # sessions
    /\ UNCHANGED <<refreshTokens, authEvents, auditUp, acall, authFrame>>

\* the tokens presented in the session specification: the refresh token and
\* the session token of the first login
SessionTokens == {generateRefreshToken(1), generateSessionToken(1)}

\* the session routes, the token service with rotation, and logout/logoutAll
\* over the sessions and tokens logins created; one client refreshes
SessionNext ==
    \/ \E p \in Procs : Login(p, "e1", "", "pw1", "")
    \/ \E p \in Procs : LoginGenerateTokens(p)
    \/ \E p \in Procs : LoginCreateSession(p)
    \/ \E p \in Procs : LoginTrackSuccess(p)
    \/ \E id \in 1..MaxTokens : terminateSession(id)
    \/ \E u \in Users, id \in 0..1 : terminateAllSessions(u, id)
    \/ RefreshAccessToken(1, generateRefreshToken(1))
    \/ RotateFind(1)
    \/ RotateCreate(1)
    \/ RotateUpdate(1)
    \/ \E tk \in SessionTokens : RevokeRefreshToken(tk)
    \/ \E p \in Procs, tk \in SessionTokens : Logout(p, tk)
    \/ \E p \in Procs : LogoutRevoke(p)
    \/ \E p \in Procs : LogoutDeactivate(p)
    \/ \E p \in Procs, u \in Users, tk \in SessionTokens \cup {Undefined} :
          LogoutAll(p, u, tk)
    \/ \E p \in Procs : LogoutAllRevoke(p)
    \/ \E p \in Procs : LogoutAllDeactivate(p)

SpecSession == LogoutInit /\ [][SessionNext]_vars

\* ------------------------------------ Verification Engine: dispatch of a code

\* the emails a password reset may be requested for: "e0" is an email
\* nobody registered
ResetEmails == {"e1", "e0"}

\* requestPasswordReset: findByEmail; for an unknown email the fixed
\* response; otherwise return generateAndSendOtp(user.id, PASSWORD_RESET,
\* email), which starts with findById and redisService.get(cacheKey)
requestPasswordReset(p, email) ==
    /\ vcall[p].pc = "idle"
    /\ IF findByEmail(email) = NoUser
       THEN VReturn(p, "if_registered")
       ELSE LET k == getCacheKey(findByEmail(email), "PASSWORD_RESET") IN
            /\ MayUse(k)
            /\ Len(compared[k]) + Running("generateAndSendOtp") < MaxGens
            /\ vcall' = [vcall EXCEPT ![p] =
                  [IdleVCall EXCEPT
                      !.pc = IF otpCache[k] # NoEntry
                             THEN "gen_lastSent" ELSE "gen_set",
                      !.op = "generateAndSendOtp",
                      !.user = findByEmail(email),
                      !.type = "PASSWORD_RESET",
                      !.caller = "requestPasswordReset"]]
    /\ UNCHANGED <<now, tokenVars, authVars, sideVars,
                   users, otpCache, lastSentCache, notified,
                   compared, invalid>>

\* generateAndSendOtp: generateOtp and redisService.set(cacheKey, ...) while
\* Redis is unavailable: set returns false, which is not read
GenStoreOtpUnavailable(p, code) ==
    /\ vcall[p].pc = "gen_set"
    /\ notified[VKey(p)] < MaxGens
    /\ vcall' = [vcall EXCEPT ![p].pc = "gen_setLastSent", ![p].otp = code]
    /\ UNCHANGED <<now, tokenVars, authVars, sideVars,
                   users, otpCache, lastSentCache, notified,
                   compared, invalid>>

\* generateAndSendOtp: redisService.set(`${cacheKey}:lastSent`, ...) while
\* Redis is unavailable: set returns false, which is not read
GenStoreLastSentUnavailable(p) ==
    /\ vcall[p].pc = "gen_setLastSent"
    /\ vcall' = [vcall EXCEPT ![p].pc = "gen_send"]
    /\ UNCHANGED <<now, tokenVars, authVars, sideVars,
                   users, otpCache, lastSentCache, notified,
                   compared, invalid>>

\* generateAndSendOtp: sendOtp when the Notifier gives up (sendMail or
\* sendSms returns false, which sendOtp does not read), the tracking event
\* and the "Verification code sent" response
GenSendUndelivered(p) ==
    /\ vcall[p].pc = "gen_send"
    /\ VReturn(p, "sent")
    /\ UNCHANGED <<now, tokenVars, authVars, sideVars,
                   users, otpCache, lastSentCache, notified,
                   compared, invalid>>

\* codes requested while Redis and the Notifier may fail
DispatchNext ==
    \/ \E p \in Procs, email \in ResetEmails : requestPasswordReset(p, email)
    \/ \E p \in Procs, u \in Users, t \in VerificationType :
          generateAndSendOtp(p, u, t)
    \/ \E p \in Procs : GenCooldownCheck(p)
    \/ \E p \in Procs, code \in Codes : GenStoreOtp(p, code)
    \/ \E p \in Procs, code \in Codes : GenStoreOtpUnavailable(p, code)
    \/ \E p \in Procs : GenStoreLastSent(p)
    \/ \E p \in Procs : GenStoreLastSentUnavailable(p)
    \/ \E p \in Procs : GenSend(p)
    \/ \E p \in Procs : GenSendUndelivered(p)

SpecDispatch == VerifSpecInit /\ [][DispatchNext]_vars

\* ------------------------------------------- Token Service: every revocation

\* TokenService.revokeAllUserRefreshTokens(userId, exceptTokenId) called on
\* the store
RevokeAllUserRefreshTokens(u, exceptTokenId) ==
    /\ refreshTokens' = revokeAllUserRefreshTokens(refreshTokens, u,
                                                   exceptTokenId)
    /\ refreshTokens' # refreshTokens
    /\ UNCHANGED <<now, rotation, tcall>>
    /\ UNCHANGED <<verifVars, authVars, sideVars>>

\* the token service with all the operations that write isRevoked
RevokeNext ==
    \/ TokenNext
    \/ \E u \in Users, i \in 0..MaxTokens :
          RevokeAllUserRefreshTokens(u, IF i = 0 THEN Undefined
                                        ELSE TokenRowId(i))

SpecRevoke == TokenInit /\ [][RevokeNext]_vars

\* -------------------------------------------------- AuthService.refreshToken

\* SessionService.updateSessionActivity:
\* update({ where: { id }, data: { lastActiveAt: new Date() } })
updateSessionActivity(rows, id) ==
    [i \in DOMAIN rows |->
        IF rows[i].id = id THEN [rows[i] EXCEPT !.lastActiveAt = now]
        ELSE rows[i]]

\* refreshToken is called with a token; tokenService.refreshAccessToken has
\* not answered yet
RefreshToken(p, tk) ==
    /\ acall[p].pc = "idle"
    /\ tcall[p].pc = "idle"
    /\ EventRoom(1)
    /\ acall' = [acall EXCEPT ![p] =
           [IdleACall EXCEPT !.pc = "refresh_call", !.op = "refresh",
                             !.token = tk]]
    /\ tcall' = [tcall EXCEPT ![p] = IdleCall]
    /\ UNCHANGED <<now, rotation, refreshTokens, verifVars, sessions,
                   authEvents, auditUp, userRoles, guard, sideVars>>

\* refreshToken: await this.tokenService.refreshAccessToken(token)
RefreshDelegate(p) ==
    /\ acall[p].pc = "refresh_call"
    /\ tcall[p] = IdleCall
    /\ RefreshAccessToken(p, acall[p].token)

\* refreshToken after the Token Service answered: null is handed on; else
\* findRefreshTokenByToken, findById, findSessionByToken(token) and, for a
\* session found, updateSessionActivity
RefreshAfterToken(p) ==
    /\ acall[p].pc = "refresh_call"
    /\ tcall[p].pc = "idle"
    /\ tcall[p].res.kind # "none"
    /\ LET i == findRefreshTokenByToken(acall[p].token)
           s == findSessionByToken(acall[p].token) IN
         IF tcall[p].res.kind = "null" \/ i = 0
            \/ refreshTokens[i].userId \notin DOMAIN users
         THEN /\ AReturn(p)
              /\ UNCHANGED sessions
         ELSE /\ sessions' = IF s # 0 THEN updateSessionActivity(sessions, s)
                             ELSE sessions
              /\ acall' = [acall EXCEPT ![p].pc = "refresh_event",
                                        ![p].user = refreshTokens[i].userId,
                                        ![p].tokenId = i,
                                        ![p].sessionId = s]
    /\ UNCHANGED <<refreshTokens, authEvents, auditUp, authFrame>>

\* refreshToken: trackTokenRefresh and the LoginResponseDto
RefreshTrack(p) ==
    /\ acall[p].pc = "refresh_event"
    /\ authEvents' = trackEvent("TOKEN_REFRESH", acall[p].user, "", "")
    /\ AReturn(p)
    /\ UNCHANGED <<refreshTokens, sessions, auditUp, authFrame>>

\* SessionService.getActiveSessions: the rows where userId, isActive: true
\* and expiresAt > new Date()
activeSessionRows(u) ==
    {j \in SessionIds : /\ sessions[j].userId = u
                        /\ sessions[j].isActive
                        /\ sessions[j].expiresAt > now}

\* the where clause without isActive: true
unexpiredSessionRows(u) ==
    {j \in SessionIds : /\ sessions[j].userId = u
                        /\ sessions[j].expiresAt > now}

\* orderBy: { lastActiveAt: 'desc' } over the rows S
RECURSIVE orderByLastActiveAtDesc(_)
orderByLastActiveAtDesc(S) ==
    IF S = {} THEN << >>
    ELSE LET first == CHOOSE j \in S :
                 \A k \in S : sessions[j].lastActiveAt >= sessions[k].lastActiveAt
         IN <<first>> \o orderByLastActiveAtDesc(S \ {first})

\* a listing that leaves terminated sessions in
getUnexpiredSessions(u) == orderByLastActiveAtDesc(unexpiredSessionRows(u))

\* SessionService.getActiveSessions(userId): the ids of the rows returned
getActiveSessions(u) == orderByLastActiveAtDesc(activeSessionRows(u))

\* the tokens presented to refreshToken: the refresh token of the first
\* login, its session token, and a string no row holds
RefreshTokens == SessionTokens \cup {NoToken}

\* logins, refreshes through AuthService, session termination and the clock
RefreshNext ==
    \/ \E p \in Procs : Login(p, "e1", "", "pw1", "")
    \/ \E p \in Procs : LoginGenerateTokens(p)
    \/ \E p \in Procs : LoginCreateSession(p)
    \/ \E p \in Procs : LoginTrackSuccess(p)
    \/ \E p \in Procs, tk \in RefreshTokens : RefreshToken(p, tk)
    \/ \E p \in Procs : RefreshDelegate(p)
    \/ \E p \in Procs : RotateFind(p)
    \/ \E p \in Procs : RotateCreate(p)
    \/ \E p \in Procs : RotateUpdate(p)
    \/ \E p \in Procs : RefreshAfterToken(p)
    \/ \E p \in Procs : RefreshTrack(p)
    \/ \E id \in 1..MaxTokens : terminateSession(id)
    \/ TokenClock

SpecRefresh == LogoutInit /\ [][RefreshNext]_vars

\* ------------------------------------------------------ AuthService.register

\* the ids prisma.user.create hands out, in order
NewUserIds == <<"u2", "u3">>

\* what a RegisterDto may carry; e1, ph1 and name1 belong to the user already
\* registered
RegisterEmails == {"e1", "e2", "e3"}
RegisterPhones == {"ph1", "ph2", "ph3"}
RegisterUsernames == {NoUsername, "name1", "name2"}

\* the seeded Role rows and the one with isDefault: true
Roles == {"ADMIN", "USER"}
IsDefault(r) == r = "USER"

\* a lookup that returns the first role, default or not
getFirstRole == "ADMIN"

\* RoleService.getDefaultRole: role.findFirst({ where: { isDefault: true } })
getDefaultRole == CHOOSE r \in Roles : IsDefault(r)

\* UserService.findByUsername: prisma.user.findFirst({ where: { username } })
findByUsername(username) ==
    IF \E u \in DOMAIN users : users[u].username = username
    THEN CHOOSE u \in DOMAIN users : users[u].username = username
    ELSE NoUser

\* the User rows created by register so far
Created == Cardinality(DOMAIN users \ Users)

\* the register requests now in flight
Registering == Cardinality({p \in Procs : acall[p].op = "register"})

\* the row userService.create inserts for a RegisterDto
NewUser(dto) ==
    [status |-> "pending_verification", emailVerified |-> FALSE,
     phoneVerified |-> FALSE, password |-> hashPassword(dto.password),
     email |-> dto.email, phone |-> dto.phone, username |-> dto.username]

\* RoleService.assignRoleToUser: the existing row of (userId, roleId), or a
\* new one; the table after the call
assignRoleToUser(rows, u, r) ==
    IF \E i \in DOMAIN rows : rows[i].userId = u /\ rows[i].roleId = r
    THEN rows
    ELSE Append(rows, [id |-> Len(rows) + 1, userId |-> u, roleId |-> r])

\* what register leaves alone in each of its steps
registerFrame == <<now, tokenVars, vcall, sessions, auditUp, guard, sideVars>>

\* register: findByEmail(email) and 'User with this email already exists'
Register(p, dto) ==
    /\ acall[p].pc = "idle"
    /\ Created + Registering < MaxRegistered
    /\ IF findByEmail(dto.email) # NoUser
       THEN AReturn(p)
       ELSE acall' = [acall EXCEPT ![p] =
               [IdleACall EXCEPT !.pc = "reg_phone", !.op = "register",
                                 !.dto = dto]]
    /\ UNCHANGED <<users, userRoles, authEvents, otpCache, lastSentCache,
                   notified, compared, invalid, registerFrame>>

\* register: findByPhone(phone) and 'User with this phone number already exists'
RegisterCheckPhone(p) ==
    /\ acall[p].pc = "reg_phone"
    /\ IF findByPhone(acall[p].dto.phone) # NoUser
       THEN AReturn(p)
       ELSE acall' = [acall EXCEPT ![p].pc =
               IF acall[p].dto.username # NoUsername
               THEN "reg_username" ELSE "reg_create"]
    /\ UNCHANGED <<users, userRoles, authEvents, otpCache, lastSentCache,
                   notified, compared, invalid, registerFrame>>

\* register: if (username) findByUsername(username) and 'Username is already taken'
RegisterCheckUsername(p) ==
    /\ acall[p].pc = "reg_username"
    /\ IF findByUsername(acall[p].dto.username) # NoUser
       THEN AReturn(p)
       ELSE acall' = [acall EXCEPT ![p].pc = "reg_create"]
    /\ UNCHANGED <<users, userRoles, authEvents, otpCache, lastSentCache,
                   notified, compared, invalid, registerFrame>>

\* register: userService.create; email is @unique, so prisma.user.create
\* throws when a row with the email exists, and register throws with it
RegisterCreate(p) ==
    /\ acall[p].pc = "reg_create"
    /\ IF \E u \in DOMAIN users : users[u].email = acall[p].dto.email
       THEN /\ AReturn(p)
            /\ UNCHANGED users
       ELSE /\ users' = users @@ (NewUserIds[Created + 1] :> NewUser(acall[p].dto))
            /\ acall' = [acall EXCEPT ![p].pc = "reg_role",
                                      ![p].user = NewUserIds[Created + 1]]
    /\ UNCHANGED <<userRoles, authEvents, otpCache, lastSentCache,
                   notified, compared, invalid, registerFrame>>

\* register: roleService.assignDefaultRoleToUser(user.id)
RegisterAssignRole(p) ==
    /\ acall[p].pc = "reg_role"
    /\ userRoles' = assignRoleToUser(userRoles, acall[p].user, getDefaultRole)
    /\ acall' = [acall EXCEPT ![p].pc = "reg_event"]
    /\ UNCHANGED <<users, authEvents, otpCache, lastSentCache,
                   notified, compared, invalid, registerFrame>>

\* register: analyticsService.trackRegistration(user, {})
RegisterTrack(p) ==
    /\ acall[p].pc = "reg_event"
    /\ authEvents' = trackEvent("REGISTRATION", acall[p].user, "", "")
    /\ acall' = [acall EXCEPT ![p].pc = "reg_otp"]
    /\ UNCHANGED <<users, userRoles, otpCache, lastSentCache,
                   notified, compared, invalid, registerFrame>>

\* register: generateAndSendOtp(user.id, PHONE, phone) for the user just
\* created (no entry yet, so no cooldown test): the entry, the lastSent
\* stamp and the SMS; then return user
RegisterSendOtp(p, code) ==
    /\ acall[p].pc = "reg_otp"
    /\ LET k == getCacheKey(acall[p].user, "PHONE") IN
         /\ otpCache' = [otpCache EXCEPT ![k] =
                FreshEntry(code, "PHONE", Len(compared[k]) + 1)]
         /\ compared' = [compared EXCEPT ![k] = Append(@, 0)]
         /\ invalid' = [invalid EXCEPT ![k] = Append(@, 0)]
         /\ lastSentCache' = [lastSentCache EXCEPT ![k] =
                [ts |-> DateNow, exp |-> now + ttlSeconds("PHONE")]]
         /\ notified' = [notified EXCEPT ![k] = @ + 1]
    /\ AReturn(p)
    /\ UNCHANGED <<users, userRoles, authEvents, registerFrame>>

\* the OTP keys of the specification of register
RegisterKeys ==
    {getCacheKey(u, "PHONE") : u \in Users \cup {NewUserIds[n] : n \in 1..MaxRegistered}}

\* one user registered before, active, with email e1, phone ph1 and
\* username name1; no OTP stored, no role assigned, nothing else started
RegisterInit ==
    /\ now = 1
    /\ TokenQuiet
    /\ users = [u \in Users |->
                  [status |-> "active", emailVerified |-> TRUE,
                   phoneVerified |-> TRUE, password |-> hashPassword("pw1"),
                   email |-> "e1", phone |-> "ph1", username |-> "name1"]]
    /\ otpCache = [k \in RegisterKeys |-> NoEntry]
    /\ lastSentCache = [k \in RegisterKeys |-> NoStamp]
    /\ vcall = [p \in Procs |-> IdleVCall]
    /\ notified = [k \in RegisterKeys |-> 0]
    /\ compared = [k \in RegisterKeys |-> << >>]
    /\ invalid = [k \in RegisterKeys |-> << >>]
    /\ AuthQuiet
    /\ SideQuiet

RegisterNext ==
    \/ \E p \in Procs, email \in RegisterEmails, phone \in RegisterPhones,
          username \in RegisterUsernames :
          Register(p, [email |-> email, phone |-> phone,
                       username |-> username, password |-> "pw1"])
    \/ \E p \in Procs : RegisterCheckPhone(p)
    \/ \E p \in Procs : RegisterCheckUsername(p)
    \/ \E p \in Procs : RegisterCreate(p)
    \/ \E p \in Procs : RegisterAssignRole(p)
    \/ \E p \in Procs : RegisterTrack(p)
    \/ \E p \in Procs, code \in Codes : RegisterSendOtp(p, code)
    \/ AuditStoreFlips

SpecRegister == RegisterInit /\ [][RegisterNext]_vars

\* ---------------------------------------------------------------- RoleService

\* permissionDefinitions of the seed, as resource:action
PermissionDefinitions ==
    <<"user:create", "user:read", "user:update", "user:delete", "user:list",
      "role:create", "role:read", "role:update", "role:delete", "role:list",
      "role:assign", "permission:create", "permission:read",
      "permission:update", "permission:delete", "permission:list",
      "permission:assign", "profile:read", "profile:update", "session:read",
      "session:delete", "settings:read", "settings:update", "analytics:read",
      "audit:read">>

\* roleDefinitions of the seed: the RolePermission rows of a role, in order
RolePermissions(r) ==
    IF r = "ADMIN" THEN PermissionDefinitions
    ELSE <<"profile:read", "profile:update", "session:read", "session:delete">>

\* the user ids assignRoleToUser is called with
RoleUsers == {"u1", "u2"}

\* prisma.userRole.findUnique({ where: { userId_roleId } }): the row id, 0 for null
findUserRole(rows, u, r) ==
    IF \E i \in DOMAIN rows : rows[i].userId = u /\ rows[i].roleId = r
    THEN CHOOSE i \in DOMAIN rows : rows[i].userId = u /\ rows[i].roleId = r
    ELSE 0

\* a create that no unique index guards
createUserRoleUnguarded(rows, u, r) ==
    Append(rows, [id |-> Len(rows) + 1, userId |-> u, roleId |-> r])

\* prisma.userRole.create under @@unique([userId, roleId]): the table after
\* the call; a second row for the pair is refused
createUserRole(rows, u, r) ==
    IF findUserRole(rows, u, r) # 0 THEN rows
    ELSE Append(rows, [id |-> Len(rows) + 1, userId |-> u, roleId |-> r])

\* what the role requests leave alone
roleFrame == <<now, tokenVars, verifVars, sessions, authEvents, auditUp,
               sideVars>>

\* assignRoleToUser: findUnique of (userId, roleId)
AssignRoleToUser(p, u, r) ==
    /\ acall[p].pc = "idle"
    /\ acall' = [acall EXCEPT ![p] =
           [IdleACall EXCEPT
              !.pc = IF findUserRole(userRoles, u, r) # 0
                     THEN "assign_found" ELSE "assign_create",
              !.op = "assign", !.user = u, !.role = r]]
    /\ UNCHANGED <<userRoles, guard, roleFrame>>

\* assignRoleToUser: if (existingUserRole) return existingUserRole
AssignRoleFound(p) ==
    /\ acall[p].pc = "assign_found"
    /\ AReturn(p)
    /\ UNCHANGED <<userRoles, guard, roleFrame>>

\* assignRoleToUser: prisma.userRole.create; a refused create is caught and
\* null is returned
AssignRoleCreate(p) ==
    /\ acall[p].pc = "assign_create"
    /\ userRoles' = createUserRole(userRoles, acall[p].user, acall[p].role)
    /\ AReturn(p)
    /\ UNCHANGED <<guard, roleFrame>>

\* the id of the UserRole row the request of p returns when its next step is
\* its last, 0 for null
AssignResult(p) ==
    CASE acall[p].pc = "assign_found" ->
            findUserRole(userRoles, acall[p].user, acall[p].role)
      [] acall[p].pc = "assign_create" ->
            IF findUserRole(userRoles, acall[p].user, acall[p].role) # 0
            THEN 0 ELSE Len(userRoles) + 1
      [] OTHER -> 0

\* prisma.userRole.findMany({ where: { userId } })
userRolesOf(u) == SelectSeq(userRoles, LAMBDA row : row.userId = u)

\* userRoles.flatMap(userRole => userRole.role.permissions.map(rp => rp.permission))
RECURSIVE flatPermissions(_)
flatPermissions(rows) ==
    IF rows = << >> THEN << >>
    ELSE RolePermissions(Head(rows).roleId) \o flatPermissions(Tail(rows))

\* the values of a Map filled by permissionsMap.set(permission.id, permission)
\* for each element in turn: each key once, in the order of first insertion
RECURSIVE mapValues(_)
mapValues(seq) ==
    IF seq = << >> THEN << >>
    ELSE LET before == mapValues(SubSeq(seq, 1, Len(seq) - 1))
             last == seq[Len(seq)]
         IN IF \E k \in DOMAIN before : before[k] = last
            THEN before ELSE Append(before, last)

\* the permissions of all the roles, one after the other
getUserPermissionsFlat(u) == flatPermissions(userRolesOf(u))

\* RoleService.getUserPermissions
getUserPermissions(u) == mapValues(flatPermissions(userRolesOf(u)))

RolesNext ==
    \/ \E p \in Procs, u \in RoleUsers, r \in Roles : AssignRoleToUser(p, u, r)
    \/ \E p \in Procs : AssignRoleFound(p)
    \/ \E p \in Procs : AssignRoleCreate(p)

SpecRoles == RegisterInit /\ [][RolesNext]_vars

\* ------------------------------------------------------------ the guard chain

\* configService.get('JWT_SECRET'), JWT_ISSUER and JWT_AUDIENCE
JwtSecret == "secret"
JwtIssuer == "landson-api"
JwtAudience == "landson-client"

\* configService.get('JWT_EXPIRATION', '15m'), in seconds
JwtExpirationSeconds == 900

\* the bearer tokens a client may present: any subject of the store, signed
\* with the configured secret or another, expired long ago or issued at
\* time 1, with the configured issuer and audience or others
Jwts ==
    [sub : {"u1"}, secret : {JwtSecret, "forged"},
     exp : {0, 1 + JwtExpirationSeconds},
     iss : {JwtIssuer, "other-api"}, aud : {JwtAudience, "other-client"}]

\* the roles and permissions an operation may declare
RequiredRoles == {{}, {"ADMIN"}, {"ADMIN", "USER"}}
RequiredPermissions == {{}, {"profile:read"}, {"profile:read", "role:assign"}}

\* verification with secretOrKey and ignoreExpiration: false (JwtStrategy),
\* and jwtService.verifyAsync(token, { secret }): signature and expiry
verifyJwt(token) ==
    /\ token # NoJwt
    /\ token.secret = JwtSecret
    /\ now < token.exp

\* what the guards leave alone
guardFrame == <<now, tokenVars, verifVars, sessions, authEvents, auditUp,
                acall, userRoles, sideVars>>

\* a request for an operation arrives
GuardRequest(isPublic, roles, permissions, token) ==
    /\ guard.pc \in {"idle", "done"}
    /\ guard' = [IdleGuard EXCEPT !.pc = "jwt", !.isPublic = isPublic,
                                  !.roles = roles,
                                  !.permissions = permissions,
                                  !.token = token]
    /\ UNCHANGED guardFrame

\* the request is turned away
GuardReject(outcome) ==
    guard' = [guard EXCEPT !.pc = "done", !.outcome = outcome]

\* JwtAuthGuard.canActivate: isPublic; super.canActivate, which attaches
\* JwtStrategy.validate(payload) or throws; then the manual verification,
\* which attaches the payload
JwtAuthGuard(passport) ==
    /\ guard.pc = "jwt"
    /\ IF guard.isPublic
       THEN guard' = [guard EXCEPT !.pc = "roles"]
       ELSE IF passport /\ verifyJwt(guard.token)
       THEN guard' = [guard EXCEPT !.pc = "roles",
                                   !.user = [id |-> guard.token.sub,
                                             sub |-> ""]]
       ELSE IF guard.token = NoJwt
       THEN GuardReject("unauthorized")
       ELSE IF verifyJwt(guard.token)
       THEN guard' = [guard EXCEPT !.pc = "roles",
                                   !.user = [id |-> "",
                                             sub |-> guard.token.sub]]
       ELSE GuardReject("unauthorized")
    /\ UNCHANGED guardFrame

\* RolesGuard: userRoles.some(userRole => requiredRoles.includes(userRole.role.name))
hasRequiredRole(rows, requiredRoles) ==
    \E i \in DOMAIN rows : rows[i].roleId \in requiredRoles

\* RolesGuard.canActivate
RolesGuard ==
    /\ guard.pc = "roles"
    /\ IF guard.roles = {}
       THEN guard' = [guard EXCEPT !.pc = "permissions"]
       ELSE IF guard.user.sub = ""
       THEN GuardReject("forbidden")
       ELSE IF hasRequiredRole(userRolesOf(guard.user.sub), guard.roles)
       THEN guard' = [guard EXCEPT !.pc = "permissions"]
       ELSE GuardReject("forbidden")
    /\ UNCHANGED guardFrame

\* PermissionsGuard: requiredPermissions.every(required =>
\* userPermissions.some(permission => same resource and action))
hasAllPermissions(userPermissions, requiredPermissions) ==
    \A required \in requiredPermissions :
        \E k \in DOMAIN userPermissions : userPermissions[k] = required

\* PermissionsGuard.canActivate; after it the handler runs
PermissionsGuard ==
    /\ guard.pc = "permissions"
    /\ IF guard.permissions = {}
       THEN GuardReject("handler")
       ELSE IF guard.user.sub = ""
       THEN GuardReject("forbidden")
       ELSE IF hasAllPermissions(flatPermissions(userRolesOf(guard.user.sub)),
                                 guard.permissions)
       THEN GuardReject("handler")
       ELSE GuardReject("forbidden")
    /\ UNCHANGED guardFrame

\* requests through the guard chain while roles are assigned to the user
GuardNext ==
    \/ \E isPublic \in BOOLEAN, roles \in RequiredRoles,
          permissions \in RequiredPermissions, token \in Jwts \cup {NoJwt} :
          GuardRequest(isPublic, roles, permissions, token)
    \/ \E passport \in BOOLEAN : JwtAuthGuard(passport)
    \/ RolesGuard
    \/ PermissionsGuard
    \/ \E r \in Roles : AssignRoleToUser(1, "u1", r)
    \/ AssignRoleFound(1)
    \/ AssignRoleCreate(1)

SpecGuard == RegisterInit /\ [][GuardNext]_vars

\* ------------------------------------------- session activity and the cleanup job

\* what a cleanup run leaves alone
cronFrame == <<now, rotation, tcall, verifVars, authEvents, auditUp, acall,
               userRoles, guard, ncall, userCache, ucall>>

\* the where clause without isActive: true
expiredSessions(rows) ==
    {i \in DOMAIN rows : rows[i].expiresAt < now}

\* where: { isActive: true, expiresAt: { lt: new Date() } }
expiredActiveSessions(rows) ==
    {i \in DOMAIN rows : rows[i].isActive /\ rows[i].expiresAt < now}

\* where: { isRevoked: false, expiresAt: { lt: new Date() } }
expiredUnrevokedTokens(rows) ==
    {i \in DOMAIN rows : ~rows[i].isRevoked /\ rows[i].expiresAt < now}

\* SessionCleanupService.cleanupExpiredSessions, first await:
\* sessionService.cleanupExpiredSessions(), an updateMany whose count is
\* the number of rows matched
CleanupSessions(p) ==
    /\ cron[p].pc = "idle"
    /\ sessions' = [i \in DOMAIN sessions |->
           IF i \in expiredActiveSessions(sessions)
           THEN [sessions[i] EXCEPT !.isActive = FALSE]
           ELSE sessions[i]]
    /\ cron' = [cron EXCEPT ![p] =
           [IdleCron EXCEPT
               !.pc = "tokens",
               !.sessionsCount = Cardinality(expiredActiveSessions(sessions))]]
    /\ UNCHANGED <<refreshTokens, cronFrame>>

\* SessionCleanupService.cleanupExpiredSessions, second await:
\* tokenService.cleanupExpiredRefreshTokens(), then the log line
CleanupTokens(p) ==
    /\ cron[p].pc = "tokens"
    /\ refreshTokens' = [i \in DOMAIN refreshTokens |->
           IF i \in expiredUnrevokedTokens(refreshTokens)
           THEN [refreshTokens[i] EXCEPT !.isRevoked = TRUE]
           ELSE refreshTokens[i]]
    /\ cron' = [cron EXCEPT
           ![p].pc = "idle",
           ![p].tokensCount = Cardinality(expiredUnrevokedTokens(refreshTokens))]
    /\ UNCHANGED <<sessions, cronFrame>>

\* SessionService.updateSessionActivity(id):
\* update({ where: { id }, data: { lastActiveAt: new Date() } })
UpdateSessionActivity(id) ==
    /\ id \in SessionIds
    /\ sessions' = updateSessionActivity(sessions, id)
    /\ UNCHANGED <<refreshTokens, authEvents, auditUp, acall, authFrame>>

\* the clock advances by a whole session (and refresh-token) lifetime
UpkeepClock ==
    /\ now - 1 < MaxUpkeepTicks * SessionDurationSeconds
    /\ now' = now + SessionDurationSeconds
    /\ UNCHANGED tokenVars
    /\ UNCHANGED <<verifVars, authVars, sideVars>>

\* one client logs in, sessions are terminated and tokens revoked while the
\* clock advances, and runs of the cleanup job overlap
SweepNext ==
    \/ Login(1, "e1", "", "pw1", "")
    \/ LoginGenerateTokens(1)
    \/ LoginCreateSession(1)
    \/ LoginTrackSuccess(1)
    \/ \E id \in 1..MaxTokens : terminateSession(id)
    \/ \E tk \in PresentedTokens : RevokeRefreshToken(tk)
    \/ \E p \in Procs : CleanupSessions(p)
    \/ \E p \in Procs : CleanupTokens(p)
    \/ UpkeepClock

SpecSweep == LogoutInit /\ [][SweepNext]_vars

\* logins, terminations and the activity bump while the clock advances
ActivityNext ==
    \/ \E p \in Procs : Login(p, "e1", "", "pw1", "")
    \/ \E p \in Procs : LoginGenerateTokens(p)
    \/ \E p \in Procs : LoginCreateSession(p)
    \/ \E p \in Procs : LoginTrackSuccess(p)
    \/ \E id \in 1..MaxTokens : terminateSession(id)
    \/ \E id \in 1..MaxTokens : UpdateSessionActivity(id)
    \/ UpkeepClock

SpecActivity == LogoutInit /\ [][ActivityNext]_vars

\* ---------------------------------------------------------------- the Notifier

\* SmsService and MailService
Channels == {"sms", "mail"}

\* what the provider call of one attempt does: the message is taken, the
\* message comes back with status failed or undelivered (Twilio only), or
\* the call throws
ProviderOutcomes == {"sent", "failed", "throws"}

\* this.config.retryAttempts (SmsService), this.maxRetries (MailService)
retryAttempts(channel) ==
    IF channel = "sms" THEN SmsRetryAttempts ELSE MailMaxRetries

\* what a Notifier send leaves alone
notifierFrame == <<now, tokenVars, verifVars, authVars, cron, userCache,
                   ucall>>

\* the send returns r; what it counted stays readable
NReturn(p, r, attempts) ==
    ncall' = [ncall EXCEPT ![p].pc = "idle", ![p].res = r,
                           ![p].attempts = attempts]

\* SmsService.sendSms: false at once without a client or when disabled;
\* else the log entry and sendWithRetry(options) with retryCount = 0
sendSms(p, available) ==
    /\ ncall[p].pc = "idle"
    /\ ncall' = [ncall EXCEPT ![p] =
          IF available
          THEN [IdleNCall EXCEPT !.pc = "attempt", !.channel = "sms"]
          ELSE [IdleNCall EXCEPT !.channel = "sms", !.res = "false"]]
    /\ UNCHANGED notifierFrame

\* MailService.sendMail: the log entry and sendWithRetry(...) with
\* retryCount = 0
sendMail(p) ==
    /\ ncall[p].pc = "idle"
    /\ ncall' = [ncall EXCEPT ![p] =
          [IdleNCall EXCEPT !.pc = "attempt", !.channel = "mail"]]
    /\ UNCHANGED notifierFrame

\* MailService.sendWithRetry: validateTemplate false, return false
MailTemplateMissing(p) ==
    /\ ncall[p].pc = "attempt"
    /\ ncall[p].channel = "mail"
    /\ NReturn(p, "false", ncall[p].attempts)
    /\ UNCHANGED notifierFrame

\* sendWithRetry: one provider call (client.messages.create,
\* mailerService.sendMail); in the catch, if (retryCount < retryAttempts)
\* wait and call sendWithRetry(..., retryCount + 1), else return false
SendWithRetry(p, outcome) ==
    /\ ncall[p].pc = "attempt"
    /\ outcome = "failed" => ncall[p].channel = "sms"
    /\ CASE outcome = "sent" -> NReturn(p, "true", ncall[p].attempts + 1)
         [] outcome = "failed" -> NReturn(p, "false", ncall[p].attempts + 1)
         [] OTHER ->
              IF ncall[p].retryCount < retryAttempts(ncall[p].channel)
              THEN ncall' = [ncall EXCEPT
                                ![p].pc = "wait",
                                ![p].attempts = ncall[p].attempts + 1]
              ELSE NReturn(p, "false", ncall[p].attempts + 1)
    /\ UNCHANGED notifierFrame

\* sendWithRetry: the retry delay is over, the recursive call starts
RetryDelay(p) ==
    /\ ncall[p].pc = "wait"
    /\ ncall' = [ncall EXCEPT ![p].pc = "attempt",
                              ![p].retryCount = ncall[p].retryCount + 1]
    /\ UNCHANGED notifierFrame

NotifierNext ==
    \/ \E p \in Procs, available \in BOOLEAN : sendSms(p, available)
    \/ \E p \in Procs : sendMail(p)
    \/ \E p \in Procs : MailTemplateMissing(p)
    \/ \E p \in Procs, outcome \in ProviderOutcomes : SendWithRetry(p, outcome)
    \/ \E p \in Procs : RetryDelay(p)

SpecNotifier == VerifSpecInit /\ [][NotifierNext]_vars

\* ------------------------------------------------------- UserService's cache

\* what a UserService request leaves alone
userFrame == <<now, tokenVars, authVars, cron, ncall, otpCache, lastSentCache,
               vcall, notified, compared, invalid>>

\* the request returns; row is what findById hands back
UReturn(p, row) ==
    ucall' = [ucall EXCEPT ![p] = [IdleUCall EXCEPT !.row = row]]

\* findById: redisService.get(cacheKey); a cached user is returned at once
FindById(p, u) ==
    /\ ucall[p].pc = "idle"
    /\ IF userCache[u] # NoCachedUser
       THEN UReturn(p, userCache[u])
       ELSE ucall' = [ucall EXCEPT ![p] =
               [IdleUCall EXCEPT !.pc = "find_db", !.op = "findById",
                                 !.user = u]]
    /\ UNCHANGED <<users, userCache, userFrame>>

\* findById: prisma.user.findUnique({ where: { id } })
FindByIdRead(p) ==
    /\ ucall[p].pc = "find_db"
    /\ ucall' = [ucall EXCEPT ![p].pc = "find_set",
                              ![p].row = users[ucall[p].user]]
    /\ UNCHANGED <<users, userCache, userFrame>>

\* findById: redisService.set(cacheKey, user, USER_CACHE_TTL) and the return
FindByIdStore(p) ==
    /\ ucall[p].pc = "find_set"
    /\ userCache' = [userCache EXCEPT ![ucall[p].user] = ucall[p].row]
    /\ UReturn(p, ucall[p].row)
    /\ UNCHANGED <<users, userFrame>>

\* the request wrote the row; invalidateUserCache has not run yet
Written(p, op, u) ==
    [ucall EXCEPT ![p] = [IdleUCall EXCEPT !.pc = "invalidate", !.op = op,
                                          !.user = u]]

\* setStatus: prisma.user.update({ where: { id }, data: { status } })
SetStatus(p, u, status) ==
    /\ ucall[p].pc = "idle"
    /\ users' = [users EXCEPT ![u].status = status]
    /\ ucall' = Written(p, "setStatus", u)
    /\ UNCHANGED <<userCache, userFrame>>

\* UserService.verifyEmail: prisma.user.update
VerifyEmail(p, u) ==
    /\ ucall[p].pc = "idle"
    /\ users' = [users EXCEPT ![u] = verifyEmail(users[u])]
    /\ ucall' = Written(p, "verifyEmail", u)
    /\ UNCHANGED <<userCache, userFrame>>

\* UserService.verifyPhone: prisma.user.update
VerifyPhone(p, u) ==
    /\ ucall[p].pc = "idle"
    /\ users' = [users EXCEPT ![u] = verifyPhone(users[u])]
    /\ ucall' = Written(p, "verifyPhone", u)
    /\ UNCHANGED <<userCache, userFrame>>

\* invalidateUserCache: redisService.del of the user's keys, then the
\* updated row is returned
InvalidateUserCache(p) ==
    /\ ucall[p].pc = "invalidate"
    /\ userCache' = [userCache EXCEPT ![ucall[p].user] = NoCachedUser]
    /\ UReturn(p, users[ucall[p].user])
    /\ UNCHANGED <<users, userFrame>>

UserCacheNext ==
    \/ \E p \in Procs, u \in Users : FindById(p, u)
    \/ \E p \in Procs : FindByIdRead(p)
    \/ \E p \in Procs : FindByIdStore(p)
    \/ \E p \in Procs, u \in Users, status \in UserStatus :
          SetStatus(p, u, status)
    \/ \E p \in Procs, u \in Users : VerifyEmail(p, u)
    \/ \E p \in Procs, u \in Users : VerifyPhone(p, u)
    \/ \E p \in Procs : InvalidateUserCache(p)

SpecUserCache == VerifSpecInit /\ [][UserCacheNext]_vars

\* ------------------------------------------------- claims on the Token Service

\* the rows created by rotating row i
Successors(i) == {j \in TokenIds : refreshTokens[j].parent = i}

\* request p returns a TokenResponse in this step
ReturnsOk(p) ==
    /\ tcall'[p] # tcall[p]
    /\ tcall'[p].pc = "idle"
    /\ tcall'[p].res.kind = "ok"

\* request p starts in this step, presenting tk
Presents(p, tk) ==
    /\ tcall[p].pc = "idle"
    /\ tcall'[p] # tcall[p]
    /\ tcall'[p].presented = tk

\* C1: with rotation enabled, when refreshAccessToken returns a response the
\* presented token is revoked, exactly one token created by its rotation
\* exists, that token is not revoked and is the one replacedByToken names,
\* and a later refreshAccessToken presenting the old token returns null.
RotationInvariant ==
    [][\A p \in Procs :
        /\ (rotation /\ ReturnsOk(p)) =>
             LET i == tcall'[p].id
                 succ == {j \in 1..Len(refreshTokens') :
                             refreshTokens'[j].parent = i}
             IN /\ refreshTokens'[i].isRevoked
                /\ Cardinality(succ) = 1
                /\ refreshTokens'[i].replacedByToken \in succ
                /\ \A j \in succ : ~refreshTokens'[j].isRevoked
        /\ \A tk \in PresentedTokens :
             (/\ rotation
              /\ Presents(p, tk)
              /\ \E q \in Procs \ {p} : /\ tcall[q].pc = "idle"
                                        /\ tcall[q].res.kind = "ok"
                                        /\ tcall[q].presented = tk)
             => tcall'[p].res.kind = "null"]_vars

\* C2: rotation is atomic: in every state a token has a successor exactly
\* when it is revoked with replacedByToken set; never a successor beside a
\* non-revoked old token, never a token revoked by rotation without successor.
RotationAtomic ==
    \A i \in TokenIds :
        (Successors(i) # {}) <=>
            (refreshTokens[i].isRevoked /\ refreshTokens[i].replacedByToken # 0)

\* C3: whatever the interleaving of the requests presenting one token, at
\* most one successor is ever created for it, and a request that presents a
\* token already revoked returns null.
SingleRotation ==
    [][/\ \A i \in 1..Len(refreshTokens') :
             Cardinality({j \in 1..Len(refreshTokens') :
                             refreshTokens'[j].parent = i}) <= 1
       /\ \A p \in Procs, tk \in PresentedTokens :
             (/\ Presents(p, tk)
              /\ findRefreshTokenByToken(tk) # 0
              /\ refreshTokens[findRefreshTokenByToken(tk)].isRevoked)
             => tcall'[p].res.kind = "null"]_vars

\* the rotation of row i has run to its end: the row is revoked and names
\* its successor
Rotated(i) ==
    /\ refreshTokens'[i].isRevoked
    /\ refreshTokens'[i].replacedByToken # 0

\* C4: a response of refreshAccessToken carries, with rotation enabled and
\* the rotation completed, the token of the new row (another string than the
\* presented one, of a row created by this rotation, not revoked and not
\* expired); with rotation disabled it carries the presented token and the
\* table is left as it was.
RefreshReturnsNewToken ==
    [][\A p \in Procs : ReturnsOk(p) =>
         IF rotation
         THEN Rotated(tcall'[p].id) =>
              /\ tcall'[p].res.refreshToken # tcall'[p].presented
              /\ \E j \in 1..Len(refreshTokens') :
                    /\ refreshTokens'[j].token = tcall'[p].res.refreshToken
                    /\ refreshTokens'[j].parent = tcall'[p].id
                    /\ ~refreshTokens'[j].isRevoked
                    /\ ~(now' > refreshTokens'[j].expiresAt)
         ELSE /\ tcall'[p].res.refreshToken = tcall'[p].presented
              /\ refreshTokens' = refreshTokens]_vars

\* the presented string names no row, a revoked row, or a row whose
\* expiresAt is in the past
Unusable(tk) ==
    \/ \A i \in TokenIds : refreshTokens[i].token # tk
    \/ \E i \in TokenIds : /\ refreshTokens[i].token = tk
                           /\ \/ refreshTokens[i].isRevoked
                              \/ refreshTokens[i].expiresAt < now

\* C5: refreshAccessToken presented with a token that is not found, revoked
\* or expired returns null at once, and the RefreshToken table is unchanged:
\* no row is modified and none is created.
RejectedRefreshChangesNothing ==
    [][\A p \in Procs, tk \in PresentedTokens :
         (Presents(p, tk) /\ Unusable(tk)) =>
             /\ tcall'[p].pc = "idle"
             /\ tcall'[p].res.kind = "null"
             /\ refreshTokens' = refreshTokens]_vars

\* C5 witness: a request got null for a stored, non-revoked, expired token
RejectedExpiredSeen ==
    \E p \in Procs :
        /\ tcall[p].pc = "idle"
        /\ tcall[p].res.kind = "null"
        /\ tcall[p].id # 0
        /\ ~refreshTokens[tcall[p].id].isRevoked
        /\ now > refreshTokens[tcall[p].id].expiresAt

\* ------------------------------------------ claims on the Verification Engine

\* request p takes a step
Steps(p) == vcall'[p] # vcall[p]

\* request p returns r to its caller in this step
Responds(p, r) ==
    /\ Steps(p)
    /\ vcall'[p].pc = "idle"
    /\ vcall'[p].res = r

\* C6: a verifyOtp call made after VerificationMaxAttempts calls returned
\* "Invalid verification code" for the stored OTP fails with "Too many failed
\* attempts", whatever code it submits, and the entry is gone afterwards.
OtpExhaustion ==
    [][\A p \in Procs :
         (/\ vcall[p].pc = "ver_attempt"
          /\ vcall[p].invalidSeen >= VerificationMaxAttempts
          /\ Steps(p))
         => /\ Responds(p, "too_many")
            /\ otpCache'[VKey(p)] = NoEntry]_vars

\* C7: the read-modify-write of the attempt counter is a critical section
\* per key: the stored counter equals the number of comparisons made against
\* the stored OTP (no increment is lost), and no generated OTP is ever
\* compared more than VerificationMaxAttempts times.
AttemptCounterCriticalSection ==
    \A k \in CacheKeys :
        /\ otpCache[k] # NoEntry =>
              otpCache[k].attempts = compared[k][otpCache[k].serial]
        /\ \A n \in 1..Len(compared[k]) :
              compared[k][n] <= VerificationMaxAttempts

\* an entry is visible for the key and the last send is less than 60 s old
SentWithinCooldown(k) ==
    /\ lastSentCache[k] # NoStamp
    /\ now - (lastSentCache[k].ts \div 1000) < 60

\* C8: a generateAndSendOtp request that found an entry and whose last send
\* is less than 60 seconds old is rejected with the cooldown message, and
\* leaves the stored code, its attempts, the last-sent stamp and the
\* Notifier's send count as they were.
CooldownRejectsAndChangesNothing ==
    [][\A p \in Procs :
         (/\ vcall[p].pc = "gen_lastSent"
          /\ SentWithinCooldown(VKey(p))
          /\ Steps(p))
         => /\ Responds(p, "cooldown")
            /\ otpCache' = otpCache
            /\ lastSentCache' = lastSentCache
            /\ notified' = notified
            /\ users' = users]_vars

\* C8 witness: a request was turned away while the entry of an earlier,
\* completed send is stored
CooldownRejectionSeen ==
    \E p \in Procs, k \in CacheKeys :
        /\ vcall[p].res = "cooldown"
        /\ otpCache[k] # NoEntry
        /\ notified[k] = 1
        /\ SentWithinCooldown(k)

VerifyOtpUpdatesUser ==
    [][\A p \in Procs :
         /\ (vcall[p].pc = "ver_del" /\ Steps(p))
            => /\ otpCache'[VKey(p)] = NoEntry
               /\ vcall[p].type = "EMAIL" => users'[vcall[p].user].emailVerified
               /\ vcall[p].type = "PHONE" => users'[vcall[p].user].phoneVerified
         /\ (Responds(p, "success") /\ vcall[p].type = "PHONE")
            => users'[vcall[p].user].status # "pending_verification"]_vars

\* C37: no step of the Verification Engine changes the status of a suspended
\* or inactive user; the only status change a verification causes is
\* pending_verification to active
StatusOnlyPendingToActive ==
    [][\A u \in Users :
          users'[u].status # users[u].status =>
              /\ users[u].status = "pending_verification"
              /\ users'[u].status = "active"]_vars

\* C36: verifyOtp never accepts an OTP later than its TTL after the
\* generateAndSendOtp that stored it, whatever attempts were made in between
\* (under SpecTtl every OTP is stored at time 1 and the clock stands still
\* while a request runs)
OtpAcceptedWithinTtl ==
    [][\A p \in Procs :
          (vcall[p].op = "verifyOtp" /\ Responds(p, "success"))
              => now <= 1 + ttlSeconds(vcall[p].type)]_vars

\* C31: a generateAndSendOtp whose Notifier send failed (nothing was
\* delivered in the send step) does not answer "Verification code sent"
SendFailurePropagated ==
    [][\A p \in Procs :
          (/\ vcall[p].pc = "gen_send"
           /\ Steps(p)
           /\ notified' = notified)
          => vcall'[p].res # "sent"]_vars

\* C38: a requestPasswordReset for a registered email answers what it
\* answers for an unregistered one, whatever the state of the user's OTP
\* entry
ResetResponseUniform ==
    [][\A p \in Procs :
          (/\ vcall[p].caller = "requestPasswordReset"
           /\ Steps(p)
           /\ vcall'[p].pc = "idle")
          => vcall'[p].res = "if_registered"]_vars

\* C40: a generateAndSendOtp answers "Verification code sent" only with an
\* OTP entry stored under its key (under SpecDispatch a stored entry is
\* neither deleted nor expired)
SuccessMeansStored ==
    [][\A p \in Procs :
          (vcall[p].op = "generateAndSendOtp" /\ Responds(p, "sent"))
          => otpCache'[VKey(p)] # NoEntry]_vars

\* ------------------------------------------------- claims on resetPassword

\* request p is inside verifyOtp for the PASSWORD_RESET type
InResetVerify(p) ==
    /\ vcall[p].op = "verifyOtp"
    /\ vcall[p].type = "PASSWORD_RESET"
    /\ vcall[p].pc \in {"ver_attempt", "ver_update", "ver_del"}

\* C11: no step of a PASSWORD_RESET verifyOtp changes the User table, a
\* request that answers not found, invalid code or too many attempts leaves
\* it unchanged, and a password changes only in the update step of a
\* resetPassword request whose verifyOtp call returned success.
ResetPasswordGatedByOtp ==
    [][/\ \A p \in Procs :
             /\ (InResetVerify(p) /\ Steps(p)) => users' = users
             /\ (\/ Responds(p, "not_found")
                 \/ Responds(p, "invalid")
                 \/ Responds(p, "too_many")) => users' = users
       /\ \A u \in Users :
             users'[u] # users[u] =>
                 \E p \in Procs : /\ vcall[p].pc = "reset_update"
                                  /\ vcall[p].caller = "resetPassword"
                                  /\ vcall[p].res = "success"
                                  /\ vcall[p].user = u
                                  /\ Responds(p, "reset_ok")
                                  /\ vcall[p].cached.otp = vcall[p].otp]_vars

\* C11 witness: after a wrong code was turned away, a resetPassword request
\* with the right code has set the new password
PasswordResetSeen ==
    \E p \in Procs, u \in Users :
        /\ vcall[p].res = "reset_ok"
        /\ users[u].password = hashPassword("pw2")
        /\ invalid[getCacheKey(u, "PASSWORD_RESET")] = <<1>>

\* ------------------------------------------- claims on logout and logoutAll

\* request p of AuthService returns in this step
AReturns(p) ==
    /\ acall[p].pc # "idle"
    /\ acall'[p].pc = "idle"

\* the AuthEvent rows of one type
EventCount(events, eventType) ==
    BagCardinality([e \in {x \in BagToSet(events) : x.eventType = eventType}
                       |-> CopiesIn(e, events)])

\* the sessions created by the login that created RefreshToken row i
SessionsOf(i) == {j \in SessionIds : sessions[j].issuedWith = i}

\* the login that created RefreshToken row i has returned it to its caller
Issued(i) ==
    /\ SessionsOf(i) # {}
    /\ ~\E q \in Procs : acall[q].op = "login" /\ acall[q].tokenId = i

\* C12: logout(token), for a refresh token issued by a login, revokes that
\* refresh token, deactivates the session created by the same login, and
\* appends a LOGOUT event; it returns true.
LogoutEndsTokenAndSession ==
    [][\A p \in Procs :
        (/\ AReturns(p)
         /\ acall[p].op = "logout"
         /\ acall[p].tokenId # 0
         /\ Issued(acall[p].tokenId))
        => /\ refreshTokens'[acall[p].tokenId].isRevoked
           /\ \A j \in SessionsOf(acall[p].tokenId) : ~sessions'[j].isActive
           /\ EventCount(authEvents', "LOGOUT")
                 = EventCount(authEvents, "LOGOUT") + 1
           /\ Response(p).kind = "true"]_vars

\* the RefreshToken rows of u not revoked, the UserSession rows of u active
LiveTokens(u) ==
    {i \in TokenIds : refreshTokens[i].userId = u /\ ~refreshTokens[i].isRevoked}

ActiveSessions(u) ==
    {j \in SessionIds : sessions[j].userId = u /\ sessions[j].isActive}

\* logoutAll of p was given the refresh token of row i, which three logins
\* ago came with session s2
ScenarioD(p, i, s2) ==
    /\ acall[p].op = "logoutAll"
    /\ acall[p].token = refreshTokens[i].token
    /\ refreshTokens[i].userId = acall[p].user
    /\ s2 \in SessionsOf(i)
    /\ Cardinality(ActiveSessions(acall[p].user)) = 3
    /\ \A k \in TokenIds : Issued(k)

\* C13: logoutAll(userId, currentRefreshToken) for a user with three active
\* sessions and three refresh tokens, currentRefreshToken tied to session S2:
\* S2 is still active and currentRefreshToken still non-revoked, the two other
\* sessions are inactive and the two other refresh tokens revoked.
LogoutAllKeepsCurrent ==
    [][\A p \in Procs, i \in TokenIds, s2 \in SessionIds :
        /\ (/\ ScenarioD(p, i, s2)
            /\ Cardinality(LiveTokens(acall[p].user)) = 3
            /\ acall[p].pc = "logoutAll_revoke"
            /\ acall'[p].pc = "logoutAll_deactivate")
           => /\ ~refreshTokens'[i].isRevoked
              /\ \A k \in LiveTokens(acall[p].user) \ {i} :
                    refreshTokens'[k].isRevoked
        /\ (/\ ScenarioD(p, i, s2)
            /\ acall[p].pc = "logoutAll_deactivate"
            /\ AReturns(p))
           => /\ sessions'[s2].isActive
              /\ \A k \in ActiveSessions(acall[p].user) \ {s2} :
                    ~sessions'[k].isActive]_vars

\* ------------------------------------ claims on sessions and refresh tokens

\* this step sets isActive of an existing UserSession row to false
Deactivates ==
    \E j \in SessionIds : sessions[j].isActive /\ ~sessions'[j].isActive

\* this step changes an existing RefreshToken row or is a rotation's create
ChangesTokens ==
    \/ \E i \in TokenIds : refreshTokens'[i] # refreshTokens[i]
    \/ /\ Len(refreshTokens') > Len(refreshTokens)
       /\ refreshTokens'[Len(refreshTokens')].parent # 0

\* this step is a step of a logout or logoutAll request
LogoutStep ==
    \E p \in Procs : /\ acall[p].op \in {"logout", "logoutAll"}
                     /\ acall'[p] # acall[p]

\* C14: deactivateSession and deactivateAllUserSessions never change any
\* RefreshToken record; revokeRefreshToken, revokeAllUserRefreshTokens and
\* refresh-token rotation never change any UserSession's isActive; of the
\* requests of AuthService only logout and logoutAll do either.
SessionTokenIndependence ==
    [][/\ Deactivates => refreshTokens' = refreshTokens
       /\ ChangesTokens => sessions' = sessions
       /\ ((Deactivates \/ ChangesTokens) /\ ~LogoutStep) => acall' = acall
      ]_vars

\* C14 witness: a terminated session whose refresh token is still live next
\* to an active session whose refresh token was rotated away
IndependentSeen ==
    \E j, k \in SessionIds :
        /\ ~sessions[j].isActive
        /\ ~refreshTokens[sessions[j].issuedWith].isRevoked
        /\ sessions[k].isActive
        /\ refreshTokens[sessions[k].issuedWith].isRevoked
        /\ refreshTokens[sessions[k].issuedWith].replacedByToken # 0
        /\ \A p \in Procs : acall[p].pc = "idle"

\* ------------------------------------------------------- claims on login

\* request p of AuthService takes a step
ASteps(p) == acall'[p] # acall[p]

\* login of p returns in this step
LoginReturns(p) == AReturns(p) /\ acall[p].op = "login"

\* login of p starts in this step and goes on to the user lookup
LoginStarts(p) ==
    /\ acall[p].pc = "idle"
    /\ acall'[p].op = "login"

\* UserStatus.ACTIVE or UserStatus.PENDING_VERIFICATION
LoginAllowed(u) == users[u].status \in {"active", "pending_verification"}

\* C15: a login attempt with a wrong password is always rejected with the
\* generic "invalid credentials" outcome, whatever the account's status;
\* "account not active" is never returned to a caller who has not supplied
\* the correct password.
WrongPasswordIsGeneric ==
    [][\A p \in Procs :
        (LoginReturns(p) /\ ~acall[p].passwordOk)
        => Response(p).kind = "invalid_credentials"]_vars

\* C16: login rejects, before any user lookup, every request that does not
\* supply exactly one of email and phone: a login that goes on to the lookup
\* carries exactly one of the two, and only such a login creates a token or
\* a session.
ExactlyOneIdentifier ==
    [][\A p \in Procs :
        /\ LoginStarts(p) => acall'[p].ident \in {"email", "phone"}
        /\ (/\ acall[p].op = "login"
            /\ ASteps(p)
            /\ \/ refreshTokens' # refreshTokens
               \/ sessions' # sessions)
           => acall[p].ident \in {"email", "phone"}]_vars

\* C17: login with the correct password succeeds exactly when the user's
\* status is active or pending_verification: it has then created one refresh
\* token and one active session and returns them; for suspended or inactive
\* it is rejected and has created neither.
CorrectPasswordLogin ==
    [][\A p \in Procs :
        (LoginReturns(p) /\ acall[p].passwordOk)
        => IF LoginAllowed(acall[p].user)
           THEN /\ Response(p).kind = "ok"
                /\ Response(p).refreshToken = generateRefreshToken(acall[p].tokenId)
                /\ refreshTokens[acall[p].tokenId].userId = acall[p].user
                /\ sessions[acall[p].sessionId].issuedWith = acall[p].tokenId
                /\ Cardinality(SessionsOf(acall[p].tokenId)) = 1
           ELSE /\ Response(p).kind = "not_active"
                /\ acall[p].tokenId = 0
                /\ acall[p].sessionId = 0]_vars

\* C18: with the AuthEvent store accepting writes, a login rejection after the
\* user lookup appends exactly one LOGIN_FAILURE event and no LOGIN_SUCCESS
\* event, a successful login exactly one LOGIN_SUCCESS event and no
\* LOGIN_FAILURE event, the other steps of login append neither, and with no
\* request past the test on email and phone no event is appended at all.
LoginEventsPerPath ==
    [][/\ \A p \in Procs :
            (acall[p].op = "login" /\ ASteps(p)) =>
               LET failures == EventCount(authEvents', "LOGIN_FAILURE")
                                 - EventCount(authEvents, "LOGIN_FAILURE")
                   successes == EventCount(authEvents', "LOGIN_SUCCESS")
                                 - EventCount(authEvents, "LOGIN_SUCCESS")
               IN IF ~auditUp \/ ~AReturns(p)
                     THEN failures = 0 /\ successes = 0
                  ELSE IF acall[p].reason # ""
                     THEN failures = 1 /\ successes = 0
                  ELSE failures = 0 /\ successes = 1
       /\ (\A p \in Procs : acall[p].pc = "idle") => authEvents' = authEvents
      ]_vars

\* C18 witness: one rejected and one successful login have returned and the
\* table holds one LOGIN_FAILURE and one LOGIN_SUCCESS event
LoginEventsSeen ==
    /\ \A p \in Procs : acall[p].pc = "idle"
    /\ EventCount(authEvents, "LOGIN_FAILURE") = 1
    /\ EventCount(authEvents, "LOGIN_SUCCESS") = 1
    /\ Len(sessions) = 1

\* C19: the suspicious-activity check never stops a login: flagged or not, the
\* login goes on to generateTokens, creates its token and its active session
\* and returns them; the flag only appends a SUSPICIOUS_ACTIVITY event.
SuspicionIsSoft ==
    [][\A p \in Procs :
        /\ (acall[p].pc = "login_check" /\ ASteps(p) /\ auditUp)
           => /\ acall'[p] =
                    [acall[p] EXCEPT
                       !.pc = "login_tokens",
                       !.flagged = isSuspicious(acall[p].user, acall[p].device)]
              /\ refreshTokens' = refreshTokens
              /\ sessions' = sessions
              /\ authEvents' =
                    IF isSuspicious(acall[p].user, acall[p].device)
                    THEN authEvents (+) SetToBag({[eventType |-> "SUSPICIOUS_ACTIVITY",
                                                   userId |-> acall[p].user,
                                                   device |-> acall[p].device,
                                                   metadata |-> ""]})
                    ELSE authEvents
        /\ (acall[p].pc = "login_tokens" /\ ASteps(p))
           => /\ acall'[p].pc = "login_session"
              /\ Len(refreshTokens') = Len(refreshTokens) + 1
              /\ ~refreshTokens'[acall'[p].tokenId].isRevoked
        /\ (acall[p].pc = "login_session" /\ ASteps(p))
           => /\ acall'[p].pc = "login_success"
              /\ Len(sessions') = Len(sessions) + 1
              /\ sessions'[acall'[p].sessionId].isActive
        /\ (acall[p].pc = "login_success" /\ ASteps(p))
           => /\ AReturns(p)
              /\ Response(p).kind = "ok"]_vars

\* C19 witness: a flagged login is about to return its tokens and session
FlaggedLoginSeen ==
    \E p \in Procs :
        /\ acall[p].pc = "login_success"
        /\ acall[p].flagged
        /\ EventCount(authEvents, "SUSPICIOUS_ACTIVITY") = 1
        /\ sessions[acall[p].sessionId].isActive
        /\ ~refreshTokens[acall[p].tokenId].isRevoked

\* C20: a failure of the AuthEvent store never changes the outcome of login:
\* it returns what the credentials and the account's status decide.
AuditFailureKeepsOutcome ==
    [][\A p \in Procs :
        LoginReturns(p)
        => Response(p).kind = IF acall[p].reason # ""
                              THEN LoginRejection(acall[p].reason)
                              ELSE "ok"]_vars

\* ----------------------------------------------------- claims on register

\* the email, the phone or the chosen username of dto belongs to a user
Claimed(dto) ==
    \E u \in DOMAIN users :
        \/ users[u].email = dto.email
        \/ users[u].phone = dto.phone
        \/ dto.username # NoUsername /\ users[u].username = dto.username

\* register of p is rejected in this step
RegisterRejected(p) ==
    /\ AReturns(p)
    /\ acall[p].pc \in {"reg_phone", "reg_username", "reg_create"}

\* the REGISTRATION events, the OTPs generated and the SMS sent so far
RegistrationEffects ==
    <<users, userRoles, authEvents, otpCache, lastSentCache, notified>>

\* C21: register is rejected when the email or the phone is already claimed
\* by a user or the desired username is taken: it creates a User only when
\* none of the three is claimed; and a rejected register changes nothing: no
\* User, no UserRole, no REGISTRATION event, no OTP.
RegisterRejectsClaimed ==
    [][\A p \in Procs :
        /\ (acall[p].op = "register" /\ ASteps(p) /\ users' # users)
           => ~Claimed(acall[p].dto)
        /\ RegisterRejected(p)
           => /\ RegistrationEffects' = RegistrationEffects
              /\ acall[p].user = NoUser]_vars

RefreshBumpsSession ==
    [][\A p \in Procs :
        /\ (/\ acall[p].pc = "refresh_call"
            /\ acall'[p].pc = "refresh_event"
            /\ Issued(findRefreshTokenByToken(acall[p].token)))
           => \A j \in SessionsOf(findRefreshTokenByToken(acall[p].token)) :
                 sessions'[j].lastActiveAt = now
        /\ (acall[p].pc = "refresh_event" /\ AReturns(p))
           => EventCount(authEvents', "TOKEN_REFRESH")
                 = EventCount(authEvents, "TOKEN_REFRESH") + 1
        /\ (acall[p].pc = "refresh_call" /\ AReturns(p))
           => /\ Response(p).kind = "null"
              /\ sessions' = sessions
              /\ authEvents' = authEvents]_vars

\* ------------------------------------------------ claims on getActiveSessions

\* C29: getActiveSessions(userId) returns exactly the sessions of the user
\* that are active and whose expiry lies after now, each once, ordered by
\* lastActiveAt descending; no inactive or expired session is in the result
ActiveSessionsListed ==
    \A u \in Users :
        LET r == getActiveSessions(u) IN
          /\ {r[k] : k \in DOMAIN r}
                = {j \in SessionIds : /\ sessions[j].userId = u
                                      /\ sessions[j].isActive
                                      /\ now < sessions[j].expiresAt}
          /\ \A k, l \in DOMAIN r : k # l => r[k] # r[l]
          /\ \A k \in DOMAIN r : k < Len(r) =>
                sessions[r[k]].lastActiveAt >= sessions[r[k + 1]].lastActiveAt

\* C29 witness: a listing of two sessions last active at different times
\* that leaves out a terminated session of the same user
ActiveListSeen ==
    \E u \in Users :
        /\ Len(getActiveSessions(u)) = 2
        /\ sessions[getActiveSessions(u)[1]].lastActiveAt
              > sessions[getActiveSessions(u)[2]].lastActiveAt
        /\ \E j \in SessionIds : /\ sessions[j].userId = u
                                 /\ ~sessions[j].isActive
                                 /\ now < sessions[j].expiresAt

\* ------------------------------------------------------- claims on revocation

\* C30: no step changes a RefreshToken row's isRevoked from true to false,
\* whatever the interleaving of generateTokens, refreshAccessToken, the
\* steps of rotateRefreshToken, revokeRefreshToken,
\* revokeAllUserRefreshTokens and cleanupExpiredRefreshTokens
RevocationOneWay ==
    [][\A i \in TokenIds :
          refreshTokens[i].isRevoked
             => /\ i \in DOMAIN refreshTokens'
                /\ refreshTokens'[i].isRevoked]_vars

\* C30 witness: a token revoked before its rotation finished, the rotation
\* then recording its successor on the revoked row, beside a revoked token
\* that was never rotated
RevokedRowsSeen ==
    /\ \E i \in TokenIds : /\ refreshTokens[i].isRevoked
                           /\ refreshTokens[i].replacedByToken # 0
                           /\ \E p \in Procs : /\ tcall[p].id = i
                                               /\ tcall[p].pc = "idle"
                                               /\ tcall[p].newId # 0
    /\ \E i \in TokenIds : /\ refreshTokens[i].isRevoked
                           /\ refreshTokens[i].replacedByToken = 0

\* -------------------------------------------------- claims on the guard chain

\* C24: a request for an operation marked public reaches the handler
\* whatever token it carries and whatever roles or permissions the
\* operation declares
PublicBypass ==
    (guard.pc = "done" /\ guard.isPublic) => guard.outcome = "handler"

\* the user of the presented token holds role r
Holds(u, r) == \E i \in DOMAIN userRoles : /\ userRoles[i].userId = u
                                           /\ userRoles[i].roleId = r

\* the user of the presented token holds the permission through some role
Permitted(u, permission) ==
    \E r \in Roles : /\ Holds(u, r)
                     /\ \E k \in DOMAIN RolePermissions(r) :
                           RolePermissions(r)[k] = permission

\* C25: a request for a non-public operation reaches the handler only if the
\* authenticated user holds every declared role and every declared
\* permission; an authenticated request for an operation that declares
\* nothing reaches the handler
AllRequirementsNeeded ==
    (guard.pc = "done" /\ ~guard.isPublic) =>
        /\ guard.outcome = "handler" =>
              /\ \A r \in guard.roles : Holds(guard.token.sub, r)
              /\ \A permission \in guard.permissions :
                    Permitted(guard.token.sub, permission)
        /\ (guard.roles = {} /\ guard.permissions = {}
            /\ guard.outcome # "unauthorized") => guard.outcome = "handler"

\* C26: a request for a non-public operation gets past authentication only
\* with a bearer token whose signature, expiry, issuer and audience all
\* validate; without a token, or with one failing any of the four, it is
\* rejected as unauthorized and never reaches the handler
BearerTokenValidated ==
    (guard.pc \in {"roles", "permissions", "done"} /\ ~guard.isPublic) =>
        (guard.outcome # "unauthorized"
            <=> /\ guard.token # NoJwt
                /\ guard.token.secret = JwtSecret
                /\ now < guard.token.exp
                /\ guard.token.iss = JwtIssuer
                /\ guard.token.aud = JwtAudience)

\* the bearer token passes signature, expiry, issuer and audience
ValidAccessToken(token) ==
    /\ token # NoJwt
    /\ token.secret = JwtSecret
    /\ now < token.exp
    /\ token.iss = JwtIssuer
    /\ token.aud = JwtAudience

\* C35: a request for a non-public operation that declares roles or
\* permissions, carrying a valid access token of a user who holds all of
\* them, is not turned away by RolesGuard or PermissionsGuard, whether
\* passport attached the identity (as id) or the manual verification did
\* (as sub)
AllowedOnEitherPath ==
    [][(/\ guard.pc \in {"roles", "permissions"}
        /\ ~guard.isPublic
        /\ guard.roles # {} \/ guard.permissions # {}
        /\ ValidAccessToken(guard.token)
        /\ \A r \in guard.roles : Holds(guard.token.sub, r)
        /\ \A permission \in guard.permissions :
              Permitted(guard.token.sub, permission))
       => guard'.outcome # "forbidden"]_vars

\* ------------------------------ claims on session activity and the cleanup job

\* C32: a session sweep deactivates exactly the sessions that were active
\* and expired, a token sweep revokes exactly the refresh tokens that were
\* unrevoked and expired, and each returns the number of rows it changed;
\* after a sweep no row is left for a run repeated at the same time, which
\* returns 0; a row once inactive or revoked stays so, so that of the runs,
\* overlapping or not, exactly one counts it
SweepCountsOnce ==
    [][/\ \A i \in DOMAIN sessions : ~sessions[i].isActive => ~sessions'[i].isActive
       /\ \A i \in DOMAIN refreshTokens :
             refreshTokens[i].isRevoked => refreshTokens'[i].isRevoked
       /\ \A p \in Procs :
             /\ (cron[p].pc = "idle" /\ cron'[p].pc = "tokens") =>
                   /\ DOMAIN sessions' = DOMAIN sessions
                   /\ \A i \in DOMAIN sessions :
                         sessions'[i] =
                            IF sessions[i].isActive /\ sessions[i].expiresAt < now
                            THEN [sessions[i] EXCEPT !.isActive = FALSE]
                            ELSE sessions[i]
                   /\ cron'[p].sessionsCount =
                         Cardinality({i \in DOMAIN sessions :
                                         sessions[i].isActive
                                             /\ ~sessions'[i].isActive})
                   /\ \A i \in DOMAIN sessions' :
                         ~(sessions'[i].isActive /\ sessions'[i].expiresAt < now')
                   /\ refreshTokens' = refreshTokens
             /\ (cron[p].pc = "tokens" /\ cron'[p].pc = "idle") =>
                   /\ DOMAIN refreshTokens' = DOMAIN refreshTokens
                   /\ \A i \in DOMAIN refreshTokens :
                         refreshTokens'[i] =
                            IF /\ ~refreshTokens[i].isRevoked
                               /\ refreshTokens[i].expiresAt < now
                            THEN [refreshTokens[i] EXCEPT !.isRevoked = TRUE]
                            ELSE refreshTokens[i]
                   /\ cron'[p].tokensCount =
                         Cardinality({i \in DOMAIN refreshTokens :
                                         ~refreshTokens[i].isRevoked
                                             /\ refreshTokens'[i].isRevoked})
                   /\ \A i \in DOMAIN refreshTokens' :
                         ~(/\ ~refreshTokens'[i].isRevoked
                           /\ refreshTokens'[i].expiresAt < now')
                   /\ sessions' = sessions]_vars

\* C32 witness: two runs overlap; the one that swept the sessions first
\* counted an expired session, the other found none left, and an expired
\* refresh token is still to be swept by one of them
OverlappingSweepsSeen ==
    \E p, q \in Procs :
        /\ cron[p].pc = "tokens" /\ cron[q].pc = "tokens"
        /\ cron[p].sessionsCount >= 1
        /\ cron[q].sessionsCount = 0
        /\ \E i \in DOMAIN sessions : ~sessions[i].isActive /\ sessions[i].expiresAt < now
        /\ expiredUnrevokedTokens(refreshTokens) # {}

\* C33: lastActiveAt of a session changes only while the session is active,
\* and never to an earlier time
ActivityOnlyWhileActive ==
    [][\A i \in DOMAIN sessions :
          sessions'[i].lastActiveAt # sessions[i].lastActiveAt =>
              /\ sessions[i].isActive
              /\ sessions'[i].lastActiveAt >= sessions[i].lastActiveAt]_vars

\* ------------------------------------------------------ claims on the Notifier

\* C34: one Notifier send makes at most three provider send attempts in
\* total (the configured number), a send that has returned has the answer
\* true or false, and the answer true is given by the attempt that
\* succeeded, after which no further attempt is made
SendAttemptsBounded ==
    \A p \in Procs :
        /\ ncall[p].attempts <= retryAttempts(ncall[p].channel)
        /\ (ncall[p].pc = "idle" /\ ncall[p].channel # "")
              => ncall[p].res \in {"true", "false"}
        /\ ncall[p].res = "true" => ncall[p].pc = "idle"

\* ----------------------------------------------- claims on UserService's cache

\* C39: once every UserService call has completed, the cache holds for each
\* user either no copy or the row now stored
CacheCoherentWhenQuiet ==
    (\A p \in Procs : ucall[p].pc = "idle") =>
        \A u \in Users : \/ userCache[u] = NoCachedUser
                         \/ userCache[u] = users[u]

\* ------------------------------------------------------ claims on RoleService

\* C27: getUserPermissions returns the union of the permissions of the roles
\* assigned to the user, each permission exactly once, and no permission of
\* a role the user does not hold
UserPermissionsUnion ==
    \A u \in RoleUsers :
        LET r == getUserPermissions(u) IN
          /\ {r[k] : k \in DOMAIN r}
                = UNION {{RolePermissions(role)[k] :
                             k \in DOMAIN RolePermissions(role)} :
                         role \in {x \in Roles : Holds(u, x)}}
          /\ \A k, l \in DOMAIN r : k # l => r[k] # r[l]

\* C27 witness: a user holding ADMIN and USER, which share profile:read,
\* beside a user holding USER alone, who does not get role:assign
SharedPermissionSeen ==
    /\ Holds("u1", "ADMIN") /\ Holds("u1", "USER")
    /\ Cardinality({k \in DOMAIN getUserPermissions("u1") :
                       getUserPermissions("u1")[k] = "profile:read"}) = 1
    /\ Holds("u2", "USER") /\ ~Holds("u2", "ADMIN")
    /\ ~\E k \in DOMAIN getUserPermissions("u2") :
           getUserPermissions("u2")[k] = "role:assign"

\* C28: there is at most one UserRole row per (userId, roleId) after every
\* step; an assignRoleToUser(u, r) called when the row exists returns that
\* row and writes nothing; one called when it does not exist creates the
\* row and returns it, unless a call overlapping it created the row first,
\* and then it writes nothing
AssignRoleIdempotent ==
    [][/\ \A i, j \in DOMAIN userRoles' :
             (/\ userRoles'[i].userId = userRoles'[j].userId
              /\ userRoles'[i].roleId = userRoles'[j].roleId) => i = j
       /\ \A p \in Procs :
             (acall[p].op = "assign" /\ AReturns(p)) =>
                IF acall[p].pc = "assign_found"
                THEN /\ userRoles' = userRoles
                     /\ AssignResult(p) # 0
                     /\ userRoles[AssignResult(p)].userId = acall[p].user
                     /\ userRoles[AssignResult(p)].roleId = acall[p].role
                ELSE IF Holds(acall[p].user, acall[p].role)
                THEN userRoles' = userRoles
                ELSE /\ Len(userRoles') = Len(userRoles) + 1
                     /\ AssignResult(p) = Len(userRoles')
                     /\ userRoles'[AssignResult(p)].userId = acall[p].user
                     /\ userRoles'[AssignResult(p)].roleId = acall[p].role]_vars

\* C28 witness: a second assignRoleToUser for a pair that has its row found
\* the row, and the pair has one row
SecondAssignSeen ==
    \E p \in Procs :
        /\ acall[p].pc = "assign_found"
        /\ Cardinality({i \in DOMAIN userRoles :
                           /\ userRoles[i].userId = acall[p].user
                           /\ userRoles[i].roleId = acall[p].role}) = 1
        /\ Len(userRoles) > 1
====
